---- MODULE Spec2Model ----
(***************************************************************************)
(* Verification model of the J1939/J1708 dashboard core:                   *)
(*   - J1939 transport protocol (BAM) reassembly   (can/j1939_parser.cpp)  *)
(*   - parameter store                              (data_manager.cpp)     *)
(*   - J1708 framer and J1587 parse                 (j1708_parser.cpp)     *)
(*   - persistent storage and shutdown protocol     (nvs_storage.cpp)      *)
(*   - the receive tasks of main.cpp                                       *)
(* Every subsystem has its own specification over the shared variables.    *)
(***************************************************************************)
EXTENDS Integers, Sequences, FiniteSets, TLC

(***************************************************************************)
(* Program constants                                                       *)
(***************************************************************************)
J1939_TP_MAX_LENGTH == 1785
J1939_TP_TIMEOUT_MS == 750
J1939_MAX_ACTIVE_TP == 4
PGN_TP_CM == 60416
PGN_TP_DT == 60160
TP_CM_BAM == 32
TP_CM_ABORT == 255
PGN_DM1 == 65226

TP_STATE_IDLE == "idle"
TP_STATE_RECEIVING == "receiving"
TP_STATE_COMPLETE == "complete"
TP_STATE_ERROR == "error"

(***************************************************************************)
(* Bounds of the model                                                     *)
(***************************************************************************)
\* the clock stops advancing at MaxTime milliseconds
MaxTime == 751
\* cap of the tp_complete_count counter
MaxComplete == 1

(***************************************************************************)
(* Small helpers                                                           *)
(***************************************************************************)
Min(a, b) == IF a < b THEN a ELSE b

\* number of 7-byte packets needed for S bytes
Ceil7(S) == (S + 6) \div 7

\* a byte array held as its memset fill value plus the cells written since
memset(byte) == [fill |-> byte, cells |-> <<>>]

BufRead(b, k) == IF k \in DOMAIN b.cells THEN b.cells[k] ELSE b.fill

\* w: the cells written, a function from offsets to bytes
BufWrite(b, w) ==
    [b EXCEPT !.cells = [k \in (DOMAIN b.cells) \cup (DOMAIN w) |->
                            IF k \in DOMAIN w THEN w[k] ELSE b.cells[k]]]

\* (uint32_t)(now - then) > limit: a clock value below the stored one wraps
\* to a difference near 2^32, which exceeds every limit used here
elapsed_exceeds(now, then, limit) ==
    IF now >= then THEN now - then > limit ELSE TRUE

(***************************************************************************)
(* State                                                                   *)
(***************************************************************************)
VARIABLES
    ctx,        \* j1939_parser_context_t: tp_sessions, tp_complete_count
    tp_now,     \* millis() as seen by the CAN context
    tp_call,    \* the last transport call: its arguments and its results
    tp_script,  \* per source address: what that sender has put on the bus
    dm,         \* data_manager_t, and the memory that follows its array
    dm_call,    \* the last parameter store call: arguments and results
    dm_updated, \* identities updated since init or since their last invalidate
    cc_rec,     \* one data_parameter_t shared by the tasks
    cc_pc,      \* per task: the statement it is about to execute
    cc_loc,     \* per task: the arguments and locals of its call
    cc_started, \* the source of every update started, in starting order
    j1708_ctx,  \* j1708_parser_context_t
    j_now,      \* millis() as seen by j1708_task
    j_line,     \* what the senders on the J1708 bus have transmitted
    j_delivered, \* the messages j1708_get_message has handed to the task
    storage,    \* nvs_storage_t, the copy in RAM
    flash,      \* the key-value namespaces written through Preferences
    nvs_power,  \* whether the board is powered
    nvs_call,   \* the last storage call and what it observed
    g_can_frames_received, \* main.cpp: extended frames handed to the pipeline
    can_call,   \* the last frame handled: the message parsed, who was notified
    dtc_env,    \* the callers of the fault history: last call, faults raised
    fn_call,    \* the last call of a function without state: arguments, result
    wlm         \* the watch list manager

tpVars == <<ctx, tp_now, tp_call, tp_script>>

dmVars == <<dm, dm_call, dm_updated>>

ccVars == <<cc_rec, cc_pc, cc_loc, cc_started>>

jVars == <<j1708_ctx, j_now, j_line, j_delivered>>

nvsVars == <<storage, flash, nvs_power, nvs_call>>

canVars == <<g_can_frames_received, can_call>>

vars == <<tpVars, dmVars, ccVars, jVars, nvsVars, canVars, dtc_env, fn_call, wlm>>

\* what the transport calls leave alone
notTp == <<dmVars, ccVars, jVars, nvsVars, canVars, dtc_env, fn_call, wlm>>

\* what the parameter store calls leave alone
notDm == <<tpVars, ccVars, jVars, nvsVars, canVars, dtc_env, fn_call, wlm>>

\* what the statements of the concurrent tasks leave alone
notCc == <<tpVars, dmVars, jVars, nvsVars, canVars, dtc_env, fn_call, wlm>>

\* what j1708_task leaves alone, the parameter store aside
notJ == <<tpVars, ccVars, nvsVars, canVars, dtc_env, fn_call, wlm>>

\* what the storage calls leave alone
notNvs == <<tpVars, dmVars, ccVars, jVars, canVars, dtc_env, fn_call, wlm>>

\* what process_j1939_frame leaves alone: it works on the transport
\* sessions, the parameter store and the storage copy in RAM
notCan ==
    <<tp_call, tp_script, dm_call, ccVars, jVars, flash, nvs_power, nvs_call,
      dtc_env, fn_call, wlm>>

\* what the direct calls on the fault history leave alone
notDtc ==
    <<tpVars, dmVars, ccVars, jVars, canVars, flash, nvs_power, nvs_call,
      fn_call, wlm>>

\* what the calls of the pure functions leave alone
notFn == <<tpVars, dmVars, ccVars, jVars, nvsVars, canVars, dtc_env, wlm>>

\* what the watch list calls leave alone, the note of the call aside
notWatch == <<tpVars, dmVars, ccVars, jVars, nvsVars, canVars, dtc_env>>

(***************************************************************************)
(* J1939 transport protocol                                                *)
(***************************************************************************)
Slots == 0 .. (J1939_MAX_ACTIVE_TP - 1)

NoSession == -1

\* a session after memset(ctx, 0, ...) and state = TP_STATE_IDLE
ZeroSession ==
    [state |-> TP_STATE_IDLE, target_pgn |-> 0, source_address |-> 0,
     total_size |-> 0, total_packets |-> 0, received_packets |-> 0,
     buffer |-> memset(0), last_packet_time_ms |-> 0]

j1939_parser_init ==
    [tp_sessions |-> [i \in Slots |-> ZeroSession], tp_complete_count |-> 0]

\* variant: only a session that is receiving is found
find_tp_session_receiving(c, source_address) ==
    LET hits == {i \in Slots :
                    /\ c.tp_sessions[i].state = TP_STATE_RECEIVING
                    /\ c.tp_sessions[i].source_address = source_address}
    IN IF hits = {} THEN NoSession
       ELSE CHOOSE i \in hits : \A j \in hits : i <= j

find_tp_session(c, source_address) ==
    LET hits == {i \in Slots :
                    /\ c.tp_sessions[i].state # TP_STATE_IDLE
                    /\ c.tp_sessions[i].source_address = source_address}
    IN IF hits = {} THEN NoSession
       ELSE CHOOSE i \in hits : \A j \in hits : i <= j

\* variant: with no idle slot the first slot is taken
allocate_tp_session_evicting(c) ==
    LET free == {i \in Slots : c.tp_sessions[i].state = TP_STATE_IDLE}
    IN IF free = {} THEN 0
       ELSE CHOOSE i \in free : \A j \in free : i <= j

allocate_tp_session(c) ==
    LET free == {i \in Slots : c.tp_sessions[i].state = TP_STATE_IDLE}
    IN IF free = {} THEN NoSession
       ELSE CHOOSE i \in free : \A j \in free : i <= j

\* variant: the announce leaves the buffer of the slot as it finds it
tp_handle_cm_unfilled(c, msg) ==
    IF msg.data[1] = TP_CM_BAM
    THEN LET found == find_tp_session(c, msg.source_address)
             s == IF found # NoSession THEN found ELSE allocate_tp_session(c)
         IN IF s = NoSession
            THEN [ctx |-> c, ret |-> FALSE]
            ELSE [ctx |-> [c EXCEPT !.tp_sessions[s] =
                     [state |-> TP_STATE_RECEIVING,
                      source_address |-> msg.source_address,
                      total_size |-> msg.data[2] + 256 * msg.data[3],
                      total_packets |-> msg.data[4],
                      target_pgn |-> msg.data[6] + 256 * msg.data[7]
                                        + 65536 * msg.data[8],
                      received_packets |-> 0,
                      last_packet_time_ms |-> msg.timestamp_ms,
                      buffer |-> c.tp_sessions[s].buffer]],
                  ret |-> FALSE]
    ELSE [ctx |-> c, ret |-> FALSE]

\* TP.CM branch of j1939_tp_handle_frame; msg.data[1] is the C data[0]
tp_handle_cm(c, msg) ==
    IF msg.data[1] = TP_CM_BAM
    THEN LET found == find_tp_session(c, msg.source_address)
             s == IF found # NoSession THEN found ELSE allocate_tp_session(c)
         IN IF s = NoSession
            THEN [ctx |-> c, ret |-> FALSE]
            ELSE [ctx |-> [c EXCEPT !.tp_sessions[s] =
                     [state |-> TP_STATE_RECEIVING,
                      source_address |-> msg.source_address,
                      total_size |-> msg.data[2] + 256 * msg.data[3],
                      total_packets |-> msg.data[4],
                      target_pgn |-> msg.data[6] + 256 * msg.data[7]
                                        + 65536 * msg.data[8],
                      received_packets |-> 0,
                      last_packet_time_ms |-> msg.timestamp_ms,
                      buffer |-> memset(255)]],
                  ret |-> FALSE]
    ELSE [ctx |-> c, ret |-> FALSE]

\* variant: every packet is stored at the start of the buffer
tp_copy_packet_at_start(session, msg) ==
    LET ks == {j \in 0 .. 6 : j < session.total_size}
    IN BufWrite(session.buffer, [k \in ks |-> msg.data[2 + k]])

\* the copy loop: 7 data bytes, fewer when total_size would be overrun
tp_copy_packet(session, msg) ==
    LET seq_num == msg.data[1]
        offset == ((seq_num - 1) * 7) % 65536
        ks == {offset + i : i \in {j \in 0 .. 6 : offset + j < session.total_size}}
    IN BufWrite(session.buffer, [k \in ks |-> msg.data[2 + (k - offset)]])

\* variant: the silence between packets is not checked
tp_packet_late_never(session, msg) == FALSE

\* the timeout check of the TP.DT branch
tp_packet_late(session, msg) ==
    elapsed_exceeds(msg.timestamp_ms, session.last_packet_time_ms,
                    J1939_TP_TIMEOUT_MS)

\* TP.DT branch of j1939_tp_handle_frame
tp_handle_dt(c, msg) ==
    LET s == find_tp_session(c, msg.source_address)
    IN IF s = NoSession \/ c.tp_sessions[s].state # TP_STATE_RECEIVING
       THEN [ctx |-> c, ret |-> FALSE]
       ELSE LET session == c.tp_sessions[s]
            IN IF tp_packet_late(session, msg)
               THEN [ctx |-> [c EXCEPT !.tp_sessions[s].state = TP_STATE_ERROR],
                     ret |-> FALSE]
               ELSE IF msg.data[1] # session.received_packets + 1
               THEN [ctx |-> [c EXCEPT !.tp_sessions[s].state = TP_STATE_ERROR],
                     ret |-> FALSE]
               ELSE LET received == (session.received_packets + 1) % 256
                        stored == [session EXCEPT
                                     !.buffer = tp_copy_packet(session, msg),
                                     !.received_packets = received,
                                     !.last_packet_time_ms = msg.timestamp_ms]
                    IN IF received >= session.total_packets
                       THEN [ctx |-> [c EXCEPT
                                 !.tp_sessions[s] =
                                     [stored EXCEPT !.state = TP_STATE_COMPLETE],
                                 !.tp_complete_count = c.tp_complete_count + 1],
                             ret |-> TRUE]
                       ELSE [ctx |-> [c EXCEPT !.tp_sessions[s] = stored],
                             ret |-> FALSE]

j1939_tp_handle_frame(c, msg) ==
    IF msg.pgn = PGN_TP_CM THEN tp_handle_cm(c, msg)
    ELSE IF msg.pgn = PGN_TP_DT THEN tp_handle_dt(c, msg)
    ELSE [ctx |-> c, ret |-> FALSE]

\* the bytes memcpy(data, session->buffer, copy_len) delivers: the cells of
\* the buffer below copy_len; over counts the bytes read past the buffer
tp_memcpy(buffer, copy_len) ==
    [fill |-> buffer.fill,
     cells |-> [k \in {j \in DOMAIN buffer.cells : j < copy_len} |-> buffer.cells[k]],
     over |-> IF copy_len > J1939_TP_MAX_LENGTH
              THEN copy_len - J1939_TP_MAX_LENGTH ELSE 0]

NoData == [fill |-> 0, cells |-> <<>>, over |-> 0]

\* variant: the drained session keeps its state
tp_release_keep(session) == session

\* "Reset session for reuse"
tp_release(session) == [session EXCEPT !.state = TP_STATE_IDLE]

\* result: the new context, the returned length, *pgn and the data copied
\* (pgn_written / NoData when the call leaves the out parameters alone)
j1939_tp_get_data(c, source_address, max_len) ==
    LET s == find_tp_session(c, source_address)
    IN IF s = NoSession \/ c.tp_sessions[s].state # TP_STATE_COMPLETE
       THEN [ctx |-> c, ret |-> 0, pgn_written |-> FALSE, pgn |-> 0,
             data |-> NoData]
       ELSE LET session == c.tp_sessions[s]
                copy_len == Min(session.total_size, max_len)
            IN [ctx |-> [c EXCEPT !.tp_sessions[s] = tp_release(session)],
                ret |-> copy_len, pgn_written |-> TRUE,
                pgn |-> session.target_pgn,
                data |-> tp_memcpy(session.buffer, copy_len)]

(***************************************************************************)
(* Frames on the bus and the calls of the CAN context                      *)
(***************************************************************************)
\* senders that announce, transfer and are drained
RichSAs == {0, 1}

\* senders that only announce: with the two above, one more than there are
\* session slots
OtherSAs == {2, 3, 4}

SAs == RichSAs \cup OtherSAs

\* announced <<total size, packet count>>: a well formed one with a short
\* last packet, one announcing no packets, one above J1939_TP_MAX_LENGTH
Announces == {<<8, 2>>, <<8, 0>>, <<1786, 2>>}
SeqNums == {1, 2}
MaxLens == {4, 2000}
Delays == {0, J1939_TP_TIMEOUT_MS, J1939_TP_TIMEOUT_MS + 1}

\* sender 0 announces anything and lets time pass; sender 1 announces the
\* well formed message and sends without delay
AnnouncesOf(sa) == IF sa = 0 THEN Announces ELSE {<<8, 2>>}
DelaysOf(sa) == IF sa = 0 THEN Delays ELSE {0}
MaxLensOf(sa) == IF sa = 0 THEN MaxLens ELSE {2000}

\* the 7 data bytes a sender puts in its packet seq
Payload(sa, seq) == [i \in 1 .. 7 |-> 64 * sa + 7 * (seq - 1) + i]

BamFrame(sa, S, P, pgn, ts) ==
    [pgn |-> PGN_TP_CM, source_address |-> sa, timestamp_ms |-> ts,
     data |-> <<TP_CM_BAM, S % 256, S \div 256, P, 255,
                pgn % 256, (pgn \div 256) % 256, pgn \div 65536>>]

AbortFrame(sa, ts) ==
    [pgn |-> PGN_TP_CM, source_address |-> sa, timestamp_ms |-> ts,
     data |-> <<TP_CM_ABORT, 255, 255, 255, 255, 255, 255, 255>>]

DtFrame(sa, seq, payload, ts) ==
    [pgn |-> PGN_TP_DT, source_address |-> sa, timestamp_ms |-> ts,
     data |-> <<seq>> \o payload]

NoMsg == [pgn |-> 0, source_address |-> 0, timestamp_ms |-> 0,
          data |-> <<0, 0, 0, 0, 0, 0, 0, 0>>]

\* what a sender has transmitted since its last announce: ok while the
\* announce was well formed (1 <= S <= 1785, packets = ceil(S/7)) and the
\* data frames came in order, each within the timeout of the previous
\* frame; slot tells whether the announce found a session or a free slot
NoScript == [S |-> 0, P |-> 0, pgn |-> 0, n |-> 0, ok |-> FALSE,
             slot |-> FALSE, t |-> 0, bytes |-> <<>>, gets |-> 0]

ScriptBam(c, sa, S, P, pgn, ts) ==
    [S |-> S, P |-> P, pgn |-> pgn, n |-> 0,
     ok |-> S >= 1 /\ S <= J1939_TP_MAX_LENGTH /\ P = Ceil7(S),
     slot |-> find_tp_session(c, sa) # NoSession
                \/ allocate_tp_session(c) # NoSession,
     t |-> ts, bytes |-> <<>>, gets |-> 0]

ScriptDt(sc, seq, payload, ts) ==
    IF sc.ok /\ sc.n < sc.P /\ seq = sc.n + 1
          /\ ts - sc.t <= J1939_TP_TIMEOUT_MS
    THEN [sc EXCEPT !.n = sc.n + 1, !.t = ts, !.bytes = sc.bytes \o payload]
    ELSE [sc EXCEPT !.ok = FALSE]

ScriptGet(sc) ==
    IF sc.ok /\ sc.n = sc.P THEN [sc EXCEPT !.gets = Min(sc.gets + 1, 2)]
    ELSE sc

\* the state of the session a call finds for a source address
StateOf(c, sa) ==
    IF find_tp_session(c, sa) = NoSession THEN "none"
    ELSE c.tp_sessions[find_tp_session(c, sa)].state

\* the record of a transport call: what was passed, what the session of the
\* address was before it, what came back
HandleCall(c, msg, r) ==
    [fn |-> "handle_frame", msg |-> msg, was |-> StateOf(c, msg.source_address),
     max_len |-> 0, ret |-> r.ret,
     len |-> 0, pgn_written |-> FALSE, pgn |-> 0, data |-> NoData]

GetCall(c, sa, max_len, r) ==
    [fn |-> "get_data", msg |-> [NoMsg EXCEPT !.source_address = sa],
     was |-> StateOf(c, sa), max_len |-> max_len, ret |-> FALSE,
     len |-> r.ret, pgn_written |-> r.pgn_written, pgn |-> r.pgn,
     data |-> r.data]

NoCall ==
    [fn |-> "init", msg |-> NoMsg, was |-> "none", max_len |-> 0,
     ret |-> FALSE, len |-> 0, pgn_written |-> FALSE, pgn |-> 0,
     data |-> NoData]

TpInit ==
    /\ ctx = j1939_parser_init
    /\ tp_now = 0
    /\ tp_call = NoCall
    /\ tp_script = [sa \in SAs |-> NoScript]

\* the CAN context hands a Broadcast Announce to j1939_tp_handle_frame
TpBam ==
    \E sa \in RichSAs : \E dt \in DelaysOf(sa), an \in AnnouncesOf(sa) :
        LET S == an[1]
            P == an[2]
            msg == BamFrame(sa, S, P, PGN_DM1, tp_now + dt)
            r == j1939_tp_handle_frame(ctx, msg)
        IN /\ tp_now + dt <= MaxTime
           /\ tp_now' = tp_now + dt
           /\ ctx' = r.ctx
           /\ tp_call' = HandleCall(ctx, msg, r)
           /\ tp_script' = [tp_script EXCEPT
                                ![sa] = ScriptBam(ctx, sa, S, P, PGN_DM1, tp_now + dt)]
           /\ UNCHANGED notTp

\* the other senders announce a message and never continue it; they are
\* interchangeable, so they start in the order of their addresses, and they
\* are on the bus before the two senders above
TpBamOther ==
    \E sa \in OtherSAs :
        LET msg == BamFrame(sa, 8, 2, PGN_DM1, tp_now)
            r == j1939_tp_handle_frame(ctx, msg)
        IN /\ \A rich \in RichSAs : tp_script[rich] = NoScript
           /\ find_tp_session(ctx, sa) = NoSession
           /\ \A other \in OtherSAs :
                  other < sa => find_tp_session(ctx, other) # NoSession
           /\ ctx' = r.ctx
           /\ tp_call' = HandleCall(ctx, msg, r)
           /\ tp_script' = [tp_script EXCEPT
                                ![sa] = ScriptBam(ctx, sa, 8, 2, PGN_DM1, tp_now)]
           /\ UNCHANGED <<tp_now, notTp>>

\* a TP.CM frame with another control byte
TpOtherCm ==
    \E sa \in {0}, dt \in Delays :
        LET msg == AbortFrame(sa, tp_now + dt)
            r == j1939_tp_handle_frame(ctx, msg)
        IN /\ tp_now + dt <= MaxTime
           /\ tp_now' = tp_now + dt
           /\ ctx' = r.ctx
           /\ tp_call' = HandleCall(ctx, msg, r)
           /\ UNCHANGED <<tp_script, notTp>>

\* a Data Transfer frame
TpDt ==
    \E sa \in RichSAs : \E dt \in DelaysOf(sa), seq \in SeqNums :
        LET payload == Payload(sa, seq)
            msg == DtFrame(sa, seq, payload, tp_now + dt)
            r == j1939_tp_handle_frame(ctx, msg)
        IN /\ tp_now + dt <= MaxTime
           /\ ctx.tp_complete_count < MaxComplete
           /\ tp_now' = tp_now + dt
           /\ ctx' = r.ctx
           /\ tp_call' = HandleCall(ctx, msg, r)
           /\ tp_script' = [tp_script EXCEPT
                                ![sa] = ScriptDt(@, seq, payload, tp_now + dt)]
           /\ UNCHANGED notTp

\* a consumer drains (or tries to drain) the session of a source address
TpGetData ==
    \E sa \in RichSAs : \E max_len \in MaxLensOf(sa) :
        LET r == j1939_tp_get_data(ctx, sa, max_len)
        IN /\ ctx' = r.ctx
           /\ tp_call' = GetCall(ctx, sa, max_len, r)
           /\ tp_script' = [tp_script EXCEPT ![sa] = ScriptGet(@)]
           /\ UNCHANGED <<tp_now, notTp>>

TpNext == TpBam \/ TpBamOther \/ TpOtherCm \/ TpDt \/ TpGetData

(***************************************************************************)
(* Parameter store (data_manager.cpp)                                      *)
(* Values are held in thousandths, so that 0.001 is the integer 1.         *)
(***************************************************************************)
DATA_MAX_PARAMETERS == 64
PARAM_NONE == 0
PARAM_ENGINE_SPEED == 1
PARAM_ENGINE_LOAD == 2
PARAM_THROTTLE_POSITION == 3
PARAM_COOLANT_TEMP == 4
PARAM_OIL_PRESSURE == 6
PARAM_BOOST_PRESSURE == 10
PARAM_ENGINE_HOURS == 12
PARAM_TRANS_OIL_TEMP == 50
PARAM_CURRENT_GEAR == 52
PARAM_VEHICLE_SPEED == 80
PARAM_FUEL_LEVEL_1 == 110
PARAM_FUEL_RATE == 112
PARAM_BATTERY_VOLTAGE == 130
PARAM_AMBIENT_TEMP == 150
PARAM_ACTIVE_DTC_COUNT == 210
PARAM_MPG_CURRENT == 230
PARAM_MAX == 256
\* the 0.001f of the change test
CHANGE_EPSILON == 1

SOURCE_UNKNOWN == "unknown"
SOURCE_J1939 == "j1939"
SOURCE_J1708 == "j1708"
SOURCE_COMPUTED == "computed"

\* bounds of the parameter store calls
MaxStamp == 1
MaxUpdates == 2
MaxCallbacks == 2

Abs(x) == IF x < 0 THEN -x ELSE x

\* identities passed to the calls: none, one below the array capacity, one
\* of the enumeration at or above it, and the first out of range
DmIds == {PARAM_NONE, PARAM_COOLANT_TEMP, PARAM_BATTERY_VOLTAGE, PARAM_MAX}
DmValues == {0, 1, 2000}
DmSources == {SOURCE_J1939, SOURCE_J1708}
DmStamps == 0 .. MaxStamp

\* the full variety of updates goes to the identity inside the array
DmValuesOf(param_id) ==
    IF param_id = PARAM_COOLANT_TEMP THEN DmValues ELSE {2000}
DmSourcesOf(param_id) ==
    IF param_id = PARAM_COOLANT_TEMP THEN DmSources ELSE {SOURCE_J1939}

\* identities whose index is inside parameters[DATA_MAX_PARAMETERS], and
\* those accepted by the range test whose index is past it
InsideIds == {id \in DmIds : id # PARAM_NONE /\ id < DATA_MAX_PARAMETERS}
BeyondIds == {id \in DmIds : id >= DATA_MAX_PARAMETERS /\ id < PARAM_MAX}

\* the identities the tasks of the model pass to the store; the records of
\* the other identities are never touched and are left out of the state
UsedIds ==
    {PARAM_ENGINE_SPEED, PARAM_THROTTLE_POSITION, PARAM_COOLANT_TEMP,
     PARAM_OIL_PRESSURE, PARAM_BOOST_PRESSURE, PARAM_ENGINE_HOURS,
     PARAM_TRANS_OIL_TEMP, PARAM_CURRENT_GEAR, PARAM_VEHICLE_SPEED,
     PARAM_FUEL_LEVEL_1, PARAM_FUEL_RATE, PARAM_BATTERY_VOLTAGE,
     PARAM_AMBIENT_TEMP, PARAM_ACTIVE_DTC_COUNT}

\* a data_parameter_t after memset 0
ZeroParam ==
    [value |-> 0, prev_value |-> 0, timestamp_ms |-> 0, update_count |-> 0,
     source |-> SOURCE_UNKNOWN, is_valid |-> FALSE]

\* beyond: the memory past the array that &parameters[id] designates for
\* an identity at or above the capacity; it is not part of the array
data_manager_init ==
    [parameters |-> [id \in {u \in UsedIds : u < DATA_MAX_PARAMETERS} |-> ZeroParam],
     beyond |-> [id \in {u \in UsedIds : u >= DATA_MAX_PARAMETERS} |-> ZeroParam],
     callbacks |-> <<>>, callback_count |-> 0, total_updates |-> 0,
     initialized |-> TRUE]

\* the range test shared by the calls
param_rejected(d, param_id) ==
    ~d.initialized \/ param_id = PARAM_NONE \/ param_id >= PARAM_MAX

\* &dm->parameters[param_id], read
param_at(d, param_id) ==
    IF param_id < DATA_MAX_PARAMETERS THEN d.parameters[param_id]
    ELSE d.beyond[param_id]

\* &dm->parameters[param_id], written
param_put(d, param_id, rec) ==
    IF param_id < DATA_MAX_PARAMETERS
    THEN [d EXCEPT !.parameters[param_id] = rec]
    ELSE [d EXCEPT !.beyond[param_id] = rec]

\* the six assignments to *param
updated_param(param, value, source, timestamp_ms) ==
    [value |-> value, prev_value |-> param.value,
     timestamp_ms |-> timestamp_ms, source |-> source, is_valid |-> TRUE,
     update_count |-> param.update_count + 1]

\* the observers called, in order: <<callback, identity, new, old>>
notify(d, param_id, value, old_value, was_valid) ==
    IF ~was_valid \/ Abs(value - old_value) > CHANGE_EPSILON
    THEN [i \in 1 .. d.callback_count |->
             <<d.callbacks[i], param_id, value, old_value>>]
    ELSE <<>>

data_manager_update(d, param_id, value, source, timestamp_ms) ==
    IF param_rejected(d, param_id) THEN [dm |-> d, notified |-> <<>>]
    ELSE LET param == param_at(d, param_id)
             stored == param_put(d, param_id,
                           updated_param(param, value, source, timestamp_ms))
         IN [dm |-> [stored EXCEPT !.total_updates = d.total_updates + 1],
             notified |-> notify(d, param_id, value, param.value, param.is_valid)]

\* result: the return value and *value (written only when ok)
data_manager_get(d, param_id) ==
    IF param_rejected(d, param_id) \/ ~param_at(d, param_id).is_valid
    THEN [ok |-> FALSE, value |-> 0]
    ELSE [ok |-> TRUE, value |-> param_at(d, param_id).value]

data_manager_get_with_timestamp(d, param_id) ==
    IF param_rejected(d, param_id) \/ ~param_at(d, param_id).is_valid
    THEN [ok |-> FALSE, value |-> 0, timestamp_ms |-> 0]
    ELSE [ok |-> TRUE, value |-> param_at(d, param_id).value,
          timestamp_ms |-> param_at(d, param_id).timestamp_ms]

\* a uint32_t as its two 16-bit halves
UINT32_MAX == [hi |-> 65535, lo |-> 65535]

\* (uint32_t)(a - b) for a, b below 2^31
U32Sub(a, b) ==
    IF a >= b THEN [hi |-> (a - b) \div 65536, lo |-> (a - b) % 65536]
    ELSE [hi |-> 65535 - ((b - a - 1) \div 65536),
          lo |-> 65535 - ((b - a - 1) % 65536)]

\* x <= n for a uint32_t x and n below 2^31
U32Le(x, n) == x.hi < 32768 /\ x.hi * 65536 + x.lo <= n

data_manager_is_fresh(d, param_id, current_time_ms, max_age_ms) ==
    IF param_rejected(d, param_id) \/ ~param_at(d, param_id).is_valid
    THEN FALSE
    ELSE U32Le(U32Sub(current_time_ms, param_at(d, param_id).timestamp_ms),
               max_age_ms)

data_manager_get_age(d, param_id, current_time_ms) ==
    IF param_rejected(d, param_id) \/ ~param_at(d, param_id).is_valid
    THEN UINT32_MAX
    ELSE U32Sub(current_time_ms, param_at(d, param_id).timestamp_ms)

data_manager_invalidate(d, param_id) ==
    IF param_rejected(d, param_id) THEN d
    ELSE param_put(d, param_id, [param_at(d, param_id) EXCEPT !.is_valid = FALSE])

\* registers the callback named by its position in the list
data_manager_register_callback(d, callback) ==
    [d EXCEPT !.callbacks = Append(d.callbacks, callback),
              !.callback_count = d.callback_count + 1]

\* the record a call finds (ZeroParam when the identity is rejected)
FoundParam(d, param_id) ==
    IF param_rejected(d, param_id) THEN ZeroParam ELSE param_at(d, param_id)

DmCall(fn, d, param_id, value, source, timestamp_ms, ok, out_value, out_ts, notified) ==
    [fn |-> fn, param_id |-> param_id, value |-> value, source |-> source,
     timestamp_ms |-> timestamp_ms, before |-> FoundParam(d, param_id),
     ok |-> ok, out_value |-> out_value, out_ts |-> out_ts,
     notified |-> notified]

\* the identities whose record differs between two states of the store
TouchedIds(d, e) == {id \in UsedIds : param_at(e, id) # param_at(d, id)}

\* records that the owner of the memory past the array may leave there:
\* zero bytes, or bytes that read as a valid record
ForeignRecords == {ZeroParam, [ZeroParam EXCEPT !.is_valid = TRUE, !.value = 2000]}

DmInit ==
    /\ dm_updated = {}
    /\ dm = data_manager_init
    /\ dm_call = DmCall("init", data_manager_init, PARAM_NONE, 0,
                        SOURCE_UNKNOWN, 0, FALSE, 0, 0, <<>>)

DmUpdate ==
    \E param_id \in DmIds, timestamp_ms \in DmStamps :
    \E value \in DmValuesOf(param_id), source \in DmSourcesOf(param_id) :
        LET r == data_manager_update(dm, param_id, value, source, timestamp_ms)
        IN /\ dm.total_updates < MaxUpdates
           /\ dm' = r.dm
           /\ dm_call' = DmCall("update", dm, param_id, value, source,
                                timestamp_ms, FALSE, 0, 0, r.notified)
           /\ dm_updated' = IF param_rejected(dm, param_id) THEN dm_updated
                             ELSE dm_updated \cup {param_id}
           /\ UNCHANGED notDm

DmGet ==
    \E param_id \in DmIds :
        LET r == data_manager_get(dm, param_id)
        IN /\ dm_call' = DmCall("get", dm, param_id, 0, SOURCE_UNKNOWN, 0,
                                r.ok, r.value, 0, <<>>)
           /\ UNCHANGED <<dm, dm_updated, notDm>>

DmGetWithTimestamp ==
    \E param_id \in DmIds :
        LET r == data_manager_get_with_timestamp(dm, param_id)
        IN /\ dm_call' = DmCall("get_with_timestamp", dm, param_id, 0,
                                SOURCE_UNKNOWN, 0, r.ok, r.value,
                                r.timestamp_ms, <<>>)
           /\ UNCHANGED <<dm, dm_updated, notDm>>

DmInvalidate ==
    \E param_id \in DmIds :
        /\ dm' = data_manager_invalidate(dm, param_id)
        /\ dm_call' = DmCall("invalidate", dm, param_id, 0, SOURCE_UNKNOWN, 0,
                             FALSE, 0, 0, <<>>)
        /\ dm_updated' = IF param_rejected(dm, param_id) THEN dm_updated
                          ELSE dm_updated \ {param_id}
        /\ UNCHANGED notDm

\* maximum ages asked for: none, and DATA_FRESHNESS_TIMEOUT_MS
DmAges == {0, 5000}

\* in the record of the call, value holds max_age_ms and timestamp_ms
\* holds current_time_ms
DmIsFresh ==
    \E param_id \in DmIds, current_time_ms \in DmStamps, max_age_ms \in DmAges :
        /\ dm_call' = DmCall("is_fresh", dm, param_id, max_age_ms,
                             SOURCE_UNKNOWN, current_time_ms,
                             data_manager_is_fresh(dm, param_id,
                                 current_time_ms, max_age_ms),
                             0, 0, <<>>)
        /\ UNCHANGED <<dm, dm_updated, notDm>>

\* in the record of the call, out_ts holds the age returned
DmGetAge ==
    \E param_id \in DmIds, current_time_ms \in DmStamps :
        /\ dm_call' = DmCall("get_age", dm, param_id, 0, SOURCE_UNKNOWN,
                             current_time_ms, FALSE, 0,
                             data_manager_get_age(dm, param_id, current_time_ms),
                             <<>>)
        /\ UNCHANGED <<dm, dm_updated, notDm>>

DmRegisterCallback ==
    /\ dm.callback_count < MaxCallbacks
    /\ dm' = data_manager_register_callback(dm, dm.callback_count + 1)
    /\ dm_call' = DmCall("register_callback", dm, PARAM_NONE, 0,
                         SOURCE_UNKNOWN, 0, TRUE, 0, 0, <<>>)
    /\ UNCHANGED <<dm_updated, notDm>>

\* the owner of the memory past the array stores its own data there
DmForeignWrite ==
    \E param_id \in BeyondIds, rec \in ForeignRecords :
        /\ dm.beyond[param_id] # rec
        /\ dm' = [dm EXCEPT !.beyond[param_id] = rec]
        /\ dm_call' = DmCall("foreign_write", dm, param_id, 0, SOURCE_UNKNOWN,
                             0, FALSE, 0, 0, <<>>)
        /\ UNCHANGED <<dm_updated, notDm>>

DmNext ==
    \/ DmUpdate \/ DmGet \/ DmGetWithTimestamp \/ DmInvalidate
    \/ DmIsFresh \/ DmGetAge \/ DmRegisterCallback \/ DmForeignWrite

(***************************************************************************)
(* The tasks of main.cpp on one record of the parameter store, statement   *)
(* by statement.  can_task (priority 5) and j1708_task (priority 4) are    *)
(* pinned to core 0 and call data_manager_update; display_task is pinned   *)
(* to core 1 and reads with data_manager_get_with_timestamp.  No call      *)
(* takes a lock.  Update number n passes value n and timestamp n.          *)
(***************************************************************************)
TASK_CAN == "can_task"
TASK_J1708 == "j1708_task"
TASK_DISPLAY == "display_task"

Writers == {TASK_CAN, TASK_J1708}

\* bound: updates started
MaxStarted == 3

SourceOfTask(t) == IF t = TASK_CAN THEN SOURCE_J1939 ELSE SOURCE_J1708

NoLocals == [value |-> 0, timestamp_ms |-> 0, source |-> SOURCE_UNKNOWN,
             old_value |-> 0, was_valid |-> FALSE, count |-> 0,
             ok |-> FALSE, out_value |-> 0, out_ts |-> 0]

\* on core 0 the task of lower priority runs only while can_task is
\* blocked, which it never is inside data_manager_update
Runs(t) == t = TASK_CAN \/ cc_pc[TASK_CAN] = "idle"

CcInit ==
    /\ cc_rec = ZeroParam
    /\ cc_pc = [t \in Writers \cup {TASK_DISPLAY} |-> "idle"]
    /\ cc_loc = [t \in Writers \cup {TASK_DISPLAY} |-> NoLocals]
    /\ cc_started = <<>>

\* one statement of task t: from pc "from" to pc "to"
CcStep(t, from, to, rec, loc) ==
    /\ cc_pc[t] = from
    /\ cc_pc' = [cc_pc EXCEPT ![t] = to]
    /\ cc_rec' = rec
    /\ cc_loc' = [cc_loc EXCEPT ![t] = loc]

\* data_manager_update is entered
CcUpdateCall ==
    \E t \in Writers :
        /\ Runs(t)
        /\ Len(cc_started) < MaxStarted
        /\ CcStep(t, "idle", "read_old", cc_rec,
                  [NoLocals EXCEPT !.value = Len(cc_started) + 1,
                                   !.timestamp_ms = Len(cc_started) + 1,
                                   !.source = SourceOfTask(t)])
        /\ cc_started' = Append(cc_started, SourceOfTask(t))
        /\ UNCHANGED notCc

\* old_value = param->value; was_valid = param->is_valid
CcReadOld ==
    \E t \in Writers :
        /\ Runs(t)
        /\ CcStep(t, "read_old", "set_prev", cc_rec,
                  [cc_loc[t] EXCEPT !.old_value = cc_rec.value,
                                    !.was_valid = cc_rec.is_valid])
        /\ UNCHANGED <<cc_started, notCc>>

\* param->prev_value = param->value
CcSetPrev ==
    \E t \in Writers :
        /\ Runs(t)
        /\ CcStep(t, "set_prev", "set_value",
                  [cc_rec EXCEPT !.prev_value = cc_rec.value], cc_loc[t])
        /\ UNCHANGED <<cc_started, notCc>>

\* param->value = value
CcSetValue ==
    \E t \in Writers :
        /\ Runs(t)
        /\ CcStep(t, "set_value", "set_timestamp",
                  [cc_rec EXCEPT !.value = cc_loc[t].value], cc_loc[t])
        /\ UNCHANGED <<cc_started, notCc>>

\* param->timestamp_ms = timestamp_ms
CcSetTimestamp ==
    \E t \in Writers :
        /\ Runs(t)
        /\ CcStep(t, "set_timestamp", "set_source",
                  [cc_rec EXCEPT !.timestamp_ms = cc_loc[t].timestamp_ms],
                  cc_loc[t])
        /\ UNCHANGED <<cc_started, notCc>>

\* param->source = source
CcSetSource ==
    \E t \in Writers :
        /\ Runs(t)
        /\ CcStep(t, "set_source", "set_valid",
                  [cc_rec EXCEPT !.source = cc_loc[t].source], cc_loc[t])
        /\ UNCHANGED <<cc_started, notCc>>

\* param->is_valid = true
CcSetValid ==
    \E t \in Writers :
        /\ Runs(t)
        /\ CcStep(t, "set_valid", "load_count",
                  [cc_rec EXCEPT !.is_valid = TRUE], cc_loc[t])
        /\ UNCHANGED <<cc_started, notCc>>

\* param->update_count++, the load
CcLoadCount ==
    \E t \in Writers :
        /\ Runs(t)
        /\ CcStep(t, "load_count", "store_count", cc_rec,
                  [cc_loc[t] EXCEPT !.count = cc_rec.update_count])
        /\ UNCHANGED <<cc_started, notCc>>

\* param->update_count++, the store; the call returns
CcStoreCount ==
    \E t \in Writers :
        /\ Runs(t)
        /\ CcStep(t, "store_count", "idle",
                  [cc_rec EXCEPT !.update_count = cc_loc[t].count + 1],
                  cc_loc[t])
        /\ UNCHANGED <<cc_started, notCc>>

\* data_manager_get_with_timestamp: if (!param->is_valid) return false
CcReadValid ==
    /\ CcStep(TASK_DISPLAY, "idle",
              IF cc_rec.is_valid THEN "read_value" ELSE "returned", cc_rec,
              [NoLocals EXCEPT !.ok = cc_rec.is_valid])
    /\ UNCHANGED <<cc_started, notCc>>

\* *value = param->value
CcReadValue ==
    /\ CcStep(TASK_DISPLAY, "read_value", "read_timestamp", cc_rec,
              [cc_loc[TASK_DISPLAY] EXCEPT !.out_value = cc_rec.value])
    /\ UNCHANGED <<cc_started, notCc>>

\* *timestamp_ms = param->timestamp_ms; return true
CcReadTimestamp ==
    /\ CcStep(TASK_DISPLAY, "read_timestamp", "returned", cc_rec,
              [cc_loc[TASK_DISPLAY] EXCEPT !.out_ts = cc_rec.timestamp_ms])
    /\ UNCHANGED <<cc_started, notCc>>

\* the reader uses the result and comes back for the next read
CcReadAgain ==
    /\ CcStep(TASK_DISPLAY, "returned", "idle", cc_rec, NoLocals)
    /\ UNCHANGED <<cc_started, notCc>>

CcNext ==
    \/ CcUpdateCall \/ CcReadOld \/ CcSetPrev \/ CcSetValue
    \/ CcSetTimestamp \/ CcSetSource \/ CcSetValid \/ CcLoadCount
    \/ CcStoreCount
    \/ CcReadValid \/ CcReadValue \/ CcReadTimestamp \/ CcReadAgain

(***************************************************************************)
(* J1708 framer and J1587 parse (j1708_parser.cpp), j1708_task (main.cpp)  *)
(***************************************************************************)
J1708_INTER_BYTE_TIMEOUT_MS == 10
J1708_MAX_MESSAGE_LENGTH == 21
J1708_MIN_MESSAGE_LENGTH == 2
J1708_MAX_PIDS == 10

J1708_RX_IDLE == "rx_idle"
J1708_RX_RECEIVING == "rx_receiving"
J1708_RX_COMPLETE == "rx_complete"

\* bound: messages put on the bus
MaxMessages == 3

RECURSIVE SumBytes(_)
SumBytes(data) ==
    IF data = <<>> THEN 0 ELSE (Head(data) + SumBytes(Tail(data))) % 256

j1708_validate_checksum(data) ==
    IF Len(data) < 2 THEN FALSE ELSE SumBytes(data) = 0

\* variant: the sum is complemented, not negated
j1708_calculate_checksum_ones_complement(data) ==
    IF Len(data) = 0 THEN 0 ELSE 255 - SumBytes(data)

\* (uint8_t)(0x100 - sum)
j1708_calculate_checksum(data) ==
    IF Len(data) = 0 THEN 0 ELSE (256 - SumBytes(data)) % 256

\* variant: the 16-bit PIDs are taken as one byte long
j1708_get_pid_length_no_words(pid) ==
    IF pid \in {84, 85, 86, 91, 92, 96, 97, 100, 102, 105, 108, 110, 168,
                171, 174, 175, 178, 177, 183, 184, 190, 191} THEN 1
    ELSE IF pid \in {245, 247} THEN 4
    ELSE 0

\* the pid_lengths table: 0 for variable length
j1708_get_pid_length(pid) ==
    IF pid \in {84, 85, 86, 91, 92, 96, 97, 100, 102, 105, 108, 110, 168,
                171, 174, 175, 178} THEN 1
    ELSE IF pid \in {177, 183, 184, 190, 191} THEN 2
    ELSE IF pid \in {245, 247} THEN 4
    ELSE 0

\* the while loop of j1708_parse_message; data[offset + 1] is the C
\* data[offset]
RECURSIVE parse_params(_, _, _, _)
parse_params(data, offset, data_end, params) ==
    IF ~(offset < data_end /\ Len(params) < J1708_MAX_PIDS) THEN params
    ELSE LET pid == data[offset + 1]
             fixed == j1708_get_pid_length(pid)
             after_pid == offset + 1
         IN IF fixed = 0 /\ after_pid >= data_end THEN params
            ELSE LET pid_len == IF fixed = 0 THEN data[after_pid + 1] ELSE fixed
                     start == IF fixed = 0 THEN after_pid + 1 ELSE after_pid
                 IN IF start + pid_len > data_end THEN params
                    ELSE parse_params(data, start + pid_len, data_end,
                           Append(params,
                             [pid |-> pid, data_length |-> pid_len,
                              is_valid |-> pid_len > 0 /\ pid_len <= 8,
                              data |-> IF pid_len > 0 /\ pid_len <= 8
                                       THEN SubSeq(data, start + 1, start + pid_len)
                                       ELSE <<>>]))

NoMessage == [mid |-> 0, params |-> <<>>, checksum_valid |-> FALSE]

j1708_parse_message(data) ==
    IF Len(data) < J1708_MIN_MESSAGE_LENGTH \/ ~j1708_validate_checksum(data)
    THEN [ok |-> FALSE, msg |-> NoMessage]
    ELSE [ok |-> TRUE,
          msg |-> [mid |-> data[1], checksum_valid |-> TRUE,
                   params |-> parse_params(data, 1, Len(data) - 1, <<>>)]]

j1708_parser_init ==
    [state |-> J1708_RX_IDLE, buffer |-> <<>>, last_byte_time_ms |-> 0,
     messages_received |-> 0, checksum_errors |-> 0, parse_errors |-> 0]

\* the inter-message gap test
j1708_gap(c, timestamp_ms) ==
    c.state = J1708_RX_RECEIVING
      /\ elapsed_exceeds(timestamp_ms, c.last_byte_time_ms,
                         J1708_INTER_BYTE_TIMEOUT_MS)

\* "Add byte to buffer", or the reset on overflow
j1708_add_byte(c, byte, timestamp_ms) ==
    IF Len(c.buffer) < J1708_MAX_MESSAGE_LENGTH
    THEN [c EXCEPT !.buffer = Append(c.buffer, byte),
                   !.last_byte_time_ms = timestamp_ms,
                   !.state = J1708_RX_RECEIVING]
    ELSE [c EXCEPT !.state = J1708_RX_IDLE, !.buffer = <<>>,
                   !.parse_errors = c.parse_errors + 1]

\* variant: a byte that finds a complete message starts the next one
j1708_receive_byte_overwriting(c, byte, timestamp_ms) ==
    IF c.state = J1708_RX_COMPLETE
    THEN [ctx |-> [c EXCEPT !.buffer = <<byte>>,
                            !.last_byte_time_ms = timestamp_ms,
                            !.state = J1708_RX_RECEIVING],
          ret |-> FALSE]
    ELSE IF j1708_gap(c, timestamp_ms)
    THEN IF Len(c.buffer) >= J1708_MIN_MESSAGE_LENGTH
            /\ j1708_validate_checksum(c.buffer)
         THEN [ctx |-> [c EXCEPT !.state = J1708_RX_COMPLETE,
                                 !.messages_received = c.messages_received + 1],
               ret |-> TRUE]
         ELSE LET counted == IF Len(c.buffer) >= J1708_MIN_MESSAGE_LENGTH
                             THEN [c EXCEPT !.checksum_errors = c.checksum_errors + 1]
                             ELSE c
                  fresh == [counted EXCEPT !.state = J1708_RX_IDLE, !.buffer = <<>>]
              IN [ctx |-> j1708_add_byte(fresh, byte, timestamp_ms), ret |-> FALSE]
    ELSE [ctx |-> j1708_add_byte(c, byte, timestamp_ms), ret |-> FALSE]

j1708_receive_byte(c, byte, timestamp_ms) ==
    IF j1708_gap(c, timestamp_ms)
    THEN IF Len(c.buffer) >= J1708_MIN_MESSAGE_LENGTH
            /\ j1708_validate_checksum(c.buffer)
         THEN [ctx |-> [c EXCEPT !.state = J1708_RX_COMPLETE,
                                 !.messages_received = c.messages_received + 1],
               ret |-> TRUE]
         ELSE LET counted == IF Len(c.buffer) >= J1708_MIN_MESSAGE_LENGTH
                             THEN [c EXCEPT !.checksum_errors = c.checksum_errors + 1]
                             ELSE c
                  fresh == [counted EXCEPT !.state = J1708_RX_IDLE, !.buffer = <<>>]
              IN [ctx |-> j1708_add_byte(fresh, byte, timestamp_ms), ret |-> FALSE]
    ELSE IF c.state = J1708_RX_COMPLETE THEN [ctx |-> c, ret |-> TRUE]
    ELSE [ctx |-> j1708_add_byte(c, byte, timestamp_ms), ret |-> FALSE]

j1708_get_message(c) ==
    IF c.state # J1708_RX_COMPLETE
    THEN [ctx |-> c, ok |-> FALSE, msg |-> NoMessage]
    ELSE [ctx |-> [c EXCEPT !.state = J1708_RX_IDLE, !.buffer = <<>>],
          ok |-> j1708_parse_message(c.buffer).ok,
          msg |-> j1708_parse_message(c.buffer).msg]

\* decoders, in thousandths; -1000 and -9999000 are the -1.0f and -9999.0f
j1708_decode_road_speed(data, len) ==
    IF len < 1 THEN -1000 ELSE (data[1] * 80467) \div 100

j1708_decode_engine_rpm(data, len) ==
    IF len < 2 THEN -1000 ELSE (data[1] + 256 * data[2]) * 250

j1708_decode_coolant_temp(data, len) ==
    IF len < 1 THEN -9999000
    ELSE IF data[1] >= 32 THEN ((data[1] - 32) * 5000) \div 9
    ELSE -(((32 - data[1]) * 5000) \div 9)

\* the switch of j1708_task on one parameter of a delivered message
j1708_task_param(d, param, now) ==
    IF param.pid = 84 /\ j1708_decode_road_speed(param.data, param.data_length) >= 0
    THEN data_manager_update(d, PARAM_VEHICLE_SPEED,
             j1708_decode_road_speed(param.data, param.data_length),
             SOURCE_J1708, now).dm
    ELSE IF param.pid = 190
            /\ j1708_decode_engine_rpm(param.data, param.data_length) >= 0
    THEN data_manager_update(d, PARAM_ENGINE_SPEED,
             j1708_decode_engine_rpm(param.data, param.data_length),
             SOURCE_J1708, now).dm
    ELSE IF param.pid = 110
            /\ j1708_decode_coolant_temp(param.data, param.data_length) > -9000000
    THEN data_manager_update(d, PARAM_COOLANT_TEMP,
             j1708_decode_coolant_temp(param.data, param.data_length),
             SOURCE_J1708, now).dm
    ELSE d

RECURSIVE j1708_task_params(_, _, _)
j1708_task_params(d, params, now) ==
    IF params = <<>> THEN d
    ELSE j1708_task_params(j1708_task_param(d, Head(params), now),
                           Tail(params), now)

\* the body of the loop of j1708_task for one byte read from Serial2
j1708_task_byte(c, d, byte, now) ==
    LET r == j1708_receive_byte(c, byte, now)
        g == j1708_get_message(r.ctx)
    IN IF ~r.ret THEN [ctx |-> r.ctx, dm |-> d, got |-> <<>>]
       ELSE IF ~g.ok THEN [ctx |-> g.ctx, dm |-> d, got |-> <<>>]
       ELSE [ctx |-> g.ctx, dm |-> j1708_task_params(d, g.msg.params, now),
             got |-> <<g.msg>>]

\* the messages senders transmit: road speed from MID 128, engine speed
\* from MID 128, an empty message from MID 130, one with a wrong checksum
Catalogue ==
    {<<128, 84, 40, 4>>, <<128, 190, 16, 39, 19>>, <<130, 126>>, <<128, 84, 40, 5>>}

\* silence before the first byte of a message, and between its bytes
InterGaps == {J1708_INTER_BYTE_TIMEOUT_MS, J1708_INTER_BYTE_TIMEOUT_MS + 1}
IntraGaps == {1, J1708_INTER_BYTE_TIMEOUT_MS}

JInit ==
    /\ j1708_ctx = j1708_parser_init
    /\ j_now = 0
    /\ j_line = [sent |-> <<>>, pos |-> 0]
    /\ j_delivered = <<>>

\* the task handles byte number pos + 1 of the message being transmitted
JFeed(byte, now) ==
    LET r == j1708_task_byte(j1708_ctx, dm, byte, now)
    IN /\ j1708_ctx' = r.ctx
       /\ dm' = r.dm
       /\ j_delivered' = j_delivered \o r.got
       /\ j_now' = now
       /\ dm_updated' = dm_updated \cup TouchedIds(dm, r.dm)
       /\ UNCHANGED <<dm_call, notJ>>

\* a sender starts a message after silence on the bus
J1708FirstByte ==
    \E msg \in Catalogue, gap \in InterGaps :
        /\ Len(j_line.sent) < MaxMessages
        /\ j_line.sent # <<>> => j_line.pos = Len(j_line.sent[Len(j_line.sent)].msg)
        /\ j_line' = [sent |-> Append(j_line.sent, [msg |-> msg, gap |-> gap]),
                      pos |-> 1]
        /\ JFeed(msg[1], j_now + gap)

\* the sender continues its message
J1708NextByte ==
    \E gap \in IntraGaps :
        /\ j_line.sent # <<>>
        /\ j_line.pos < Len(j_line.sent[Len(j_line.sent)].msg)
        /\ j_line' = [j_line EXCEPT !.pos = j_line.pos + 1]
        /\ JFeed(j_line.sent[Len(j_line.sent)].msg[j_line.pos + 1], j_now + gap)

JNext == J1708FirstByte \/ J1708NextByte

\* the messages of the framer runs: a valid one, one with a wrong checksum,
\* a lone byte, and a node that keeps transmitting past the longest message
Babble == [i \in 1..(J1708_MAX_MESSAGE_LENGTH + 2) |-> 0]
FramerCatalogue == {<<130, 126>>, <<128, 84, 40, 5>>, <<128>>, Babble}

\* the bytes of one message follow each other at the line rate
FramerIntraGaps == {1}

FramerFirstByte ==
    \E msg \in FramerCatalogue, gap \in InterGaps :
        /\ Len(j_line.sent) < MaxMessages
        /\ j_line.sent # <<>> => j_line.pos = Len(j_line.sent[Len(j_line.sent)].msg)
        /\ j_line' = [sent |-> Append(j_line.sent, [msg |-> msg, gap |-> gap]),
                      pos |-> 1]
        /\ JFeed(msg[1], j_now + gap)

FramerNextByte ==
    \E gap \in FramerIntraGaps :
        /\ j_line.sent # <<>>
        /\ j_line.pos < Len(j_line.sent[Len(j_line.sent)].msg)
        /\ j_line' = [j_line EXCEPT !.pos = j_line.pos + 1]
        /\ JFeed(j_line.sent[Len(j_line.sent)].msg[j_line.pos + 1], j_now + gap)

FramerNext == FramerFirstByte \/ FramerNextByte

\* ---- a consumer that does not drain at once ----
\* bytes handed to the framer
MaxFed == 5

\* two bytes 128 or two bytes 0 make a valid message
DirectBytes == {0, 128}
DirectGaps == {1, J1708_INTER_BYTE_TIMEOUT_MS + 1}

\* j1708_receive_byte called on its own; the note keeps the state found
\* and the result
DirectByte ==
    \E byte \in DirectBytes, gap \in DirectGaps :
        LET r == j1708_receive_byte(j1708_ctx, byte, j_now + gap)
        IN /\ Len(j_line.sent) < MaxFed
           /\ j1708_ctx' = r.ctx
           /\ j_now' = j_now + gap
           /\ j_line' = [sent |-> Append(j_line.sent,
                                         [msg |-> <<byte>>, gap |-> gap]),
                         pos |-> 1]
           /\ fn_call' = [fn |-> "j1708_receive_byte",
                          was |-> j1708_ctx.state, ret |-> r.ret]
           /\ UNCHANGED <<j_delivered, dmVars, tpVars, ccVars, nvsVars,
                          canVars, dtc_env, wlm>>

\* j1708_get_message called whenever the consumer gets to it
DirectGet ==
    LET r == j1708_get_message(j1708_ctx)
    IN /\ j1708_ctx' = r.ctx
       /\ j_delivered' = IF r.ok THEN Append(j_delivered, r.msg)
                         ELSE j_delivered
       /\ fn_call' = [fn |-> "j1708_get_message",
                      was |-> j1708_ctx.state, ret |-> r.ok]
       /\ UNCHANGED <<j_now, j_line, dmVars, tpVars, ccVars, nvsVars,
                      canVars, dtc_env, wlm>>

DirectNext == DirectByte \/ DirectGet

(***************************************************************************)
(* Persistent storage: the system state across power cycles                *)
(* (nvs_storage.cpp, firmware build: the Preferences calls are compiled)   *)
(***************************************************************************)
\* boots the model follows; the counters are uint32_t in the code
MaxBoots == 5

NVS_MAX_DTC_HISTORY == 20

NvsSections == {"trip_a", "trip_b", "lifetime", "settings", "dtc"}

\* system_state_t as memset leaves it
ZeroSystem == [clean_shutdown |-> FALSE, boot_count |-> 0, crash_count |-> 0]

\* (5 * 60 * 1000)
SAVE_INTERVAL_MS == 300000
\* DISTANCE_THRESHOLD_KM 1.0f, in thousandths
DISTANCE_THRESHOLD_KM == 1000

\* trip_data_t as init_trip_defaults leaves it; the float fields are in
\* thousandths
ZeroTrip ==
    [distance_km |-> 0, fuel_used_liters |-> 0, start_time |-> 0,
     duration_seconds |-> 0, avg_speed_kmh |-> 0, avg_fuel_economy |-> 0,
     is_active |-> FALSE]

\* lifetime_stats_t as memset leaves it
ZeroLifetime ==
    [total_distance_km |-> 0, total_fuel_liters |-> 0, engine_hours |-> 0,
     boot_count |-> 0, best_mpg |-> 0, worst_mpg |-> 0,
     first_boot_time |-> 0, total_runtime_seconds |-> 0]

\* init_lifetime_defaults: worst_mpg = 999.0f
init_lifetime_defaults == [ZeroLifetime EXCEPT !.worst_mpg = 999000]

ZeroSettings ==
    [units |-> 0, brightness |-> 0, default_page |-> 0, temp_unit |-> 0,
     pressure_unit |-> 0, fuel_unit |-> 0, fuel_tank_1_size |-> 0,
     fuel_tank_2_size |-> 0]

default_settings ==
    [units |-> 1, brightness |-> 75, default_page |-> 0, temp_unit |-> 1,
     pressure_unit |-> 1, fuel_unit |-> 1, fuel_tank_1_size |-> 200,
     fuel_tank_2_size |-> 200]

\* nvs_storage_t as memset leaves it, which is also how the BSS holds it at
\* power-on; dirty: the sections whose *_dirty flag is set
ZeroStorage ==
    [initialized |-> FALSE, system |-> ZeroSystem, dirty |-> {},
     trip_a |-> ZeroTrip, trip_b |-> ZeroTrip, lifetime |-> ZeroLifetime,
     settings |-> ZeroSettings, dtc_history |-> <<>>, dtc_count |-> 0,
     distance_accumulator |-> 0, fuel_accumulator |-> 0,
     last_save_time_ms |-> 0]

\* the keys save_all puts into "trip_a" / "trip_b"
trip_keys(trip) ==
    [distance |-> trip.distance_km, fuel |-> trip.fuel_used_liters,
     start_time |-> trip.start_time, duration |-> trip.duration_seconds,
     avg_speed |-> trip.avg_speed_kmh, active |-> trip.is_active]

\* the fields load_all gets from "trip_a" / "trip_b"
trip_loaded(trip, k) ==
    [trip EXCEPT !.distance_km = k.distance, !.fuel_used_liters = k.fuel,
                 !.start_time = k.start_time, !.duration_seconds = k.duration,
                 !.avg_speed_kmh = k.avg_speed, !.is_active = k.active]

\* the keys of the "system" namespace that the model follows
SystemKeys == {"clean_shut", "boot_count", "crash_count"}

\* an erased flash: no key has been written. The keys of "trip_a", "trip_b",
\* "lifetime" and "settings" are written together and are kept as one record
\* each; broken: the namespaces that cannot be opened for writing
ErasedFlash ==
    [keys |-> {}, broken |-> {}, clean_shut |-> FALSE, boot_count |-> 0,
     crash_count |-> 0, trip_a |-> trip_keys(ZeroTrip),
     trip_b |-> trip_keys(ZeroTrip), lifetime |-> init_lifetime_defaults,
     settings |-> default_settings, count |-> 0, dtcs |-> <<>>]

\* Preferences::getBool / getUInt: the stored value, or the default when the
\* key has never been written
prefs_get(fl, key, default) == IF key \in fl.keys THEN fl[key] ELSE default

\* Preferences::putBool / putUInt
prefs_put(fl, key, value) ==
    [fl EXCEPT ![key] = value, !.keys = fl.keys \cup {key}]

\* the outcomes of prefs_system.begin("system", true): the namespace opens
\* when a key has been written to it; opening a namespace that was never
\* written read-only is left to the library
prefs_begin_readonly(fl) ==
    IF fl.keys \cap SystemKeys # {} THEN {TRUE} ELSE {TRUE, FALSE}

\* nvs_storage_load_all; opened tells whether begin("system") succeeded.
\* The defaults of the other namespaces' keys are the values nvs_storage_init
\* has put into the context, so a failed begin of those namespaces loads the
\* same contents.
nvs_storage_load_all(st, fl, opened) ==
    LET count == prefs_get(fl, "count", 0)
        loaded == [st EXCEPT
                     !.trip_a = trip_loaded(@, prefs_get(fl, "trip_a",
                                                         trip_keys(ZeroTrip))),
                     !.trip_b = trip_loaded(@, prefs_get(fl, "trip_b",
                                                         trip_keys(ZeroTrip))),
                     !.lifetime = prefs_get(fl, "lifetime",
                                            init_lifetime_defaults),
                     !.settings = prefs_get(fl, "settings", default_settings),
                     !.dtc_count = count,
                     !.dtc_history =
                         IF count > 0 /\ count <= NVS_MAX_DTC_HISTORY
                         THEN prefs_get(fl, "dtcs", <<>>) ELSE <<>>]
    IN IF opened
       THEN [loaded EXCEPT !.system =
               [clean_shutdown |-> prefs_get(fl, "clean_shut", TRUE),
                boot_count |-> prefs_get(fl, "boot_count", 0),
                crash_count |-> prefs_get(fl, "crash_count", 0)]]
       ELSE loaded

\* nvs_storage_init, "Initialize with defaults"
DefaultStorage ==
    [ZeroStorage EXCEPT !.lifetime = init_lifetime_defaults,
                        !.settings = default_settings]

\* nvs_storage_init, "Update system state"
nvs_count_boot(loaded) ==
    [loaded EXCEPT !.boot_count = loaded.boot_count + 1,
                   !.crash_count = IF ~loaded.clean_shutdown
                                   THEN loaded.crash_count + 1
                                   ELSE loaded.crash_count,
                   !.clean_shutdown = FALSE]

\* nvs_storage_init: the storage and the flash it leaves, and the flag and the
\* crash count as nvs_storage_load_all left them
nvs_storage_init(fl, opened) ==
    LET loaded == nvs_storage_load_all(DefaultStorage, fl, opened)
        sys == nvs_count_boot(loaded.system)
        st == [loaded EXCEPT !.system = sys, !.initialized = TRUE]
        f1 == prefs_put(fl, "boot_count", sys.boot_count)
        f2 == prefs_put(f1, "crash_count", sys.crash_count)
        f3 == prefs_put(f2, "clean_shut", FALSE)
    IN [storage |-> st, flash |-> f3,
        loaded_clean |-> loaded.system.clean_shutdown,
        loaded_crash |-> loaded.system.crash_count,
        loaded_boot |-> loaded.system.boot_count]

\* begin(namespace, false) and the puts that follow it: nothing is written
\* to a namespace that does not open, and no result is looked at
prefs_write(fl, section, key, value) ==
    IF section \in fl.broken THEN fl ELSE prefs_put(fl, key, value)

\* nvs_storage_save_all: every dirty section is written and its flag cleared;
\* no section holds a key of the "system" namespace; ok is the value returned
nvs_storage_save_all(st, fl) ==
    IF ~st.initialized THEN [storage |-> st, flash |-> fl, ok |-> FALSE]
    ELSE LET wr(f, section, key, value) ==
                 IF section \in st.dirty
                 THEN prefs_write(f, section, key, value) ELSE f
             f1 == wr(fl, "trip_a", "trip_a", trip_keys(st.trip_a))
             f2 == wr(f1, "trip_b", "trip_b", trip_keys(st.trip_b))
             f3 == wr(f2, "lifetime", "lifetime", st.lifetime)
             f4 == wr(f3, "settings", "settings", st.settings)
             f5 == wr(f4, "dtc", "count", st.dtc_count)
             f6 == IF st.dtc_count > 0
                   THEN wr(f5, "dtc", "dtcs", st.dtc_history) ELSE f5
         IN [storage |-> [st EXCEPT !.dirty = {}], flash |-> f6, ok |-> TRUE]

\* variant: the accumulators are applied and not reset
fold_accumulators_kept(st) ==
    [st EXCEPT
        !.trip_a.distance_km = @ + st.distance_accumulator,
        !.trip_a.fuel_used_liters = @ + st.fuel_accumulator,
        !.trip_b.distance_km = @ + st.distance_accumulator,
        !.trip_b.fuel_used_liters = @ + st.fuel_accumulator,
        !.lifetime.total_distance_km = @ + st.distance_accumulator,
        !.lifetime.total_fuel_liters = @ + st.fuel_accumulator]

\* "Apply accumulated values to trips and lifetime", "Reset accumulators"
fold_accumulators(st) ==
    [st EXCEPT
        !.trip_a.distance_km = @ + st.distance_accumulator,
        !.trip_a.fuel_used_liters = @ + st.fuel_accumulator,
        !.trip_b.distance_km = @ + st.distance_accumulator,
        !.trip_b.fuel_used_liters = @ + st.fuel_accumulator,
        !.lifetime.total_distance_km = @ + st.distance_accumulator,
        !.lifetime.total_fuel_liters = @ + st.fuel_accumulator,
        !.distance_accumulator = 0,
        !.fuel_accumulator = 0]

\* nvs_storage_emergency_save
nvs_storage_emergency_save(st, fl) ==
    LET forced == [st EXCEPT
                     !.dirty = st.dirty \cup {"trip_a", "trip_b", "lifetime"}]
    IN nvs_storage_save_all(
           IF st.distance_accumulator > 0 \/ st.fuel_accumulator > 0
           THEN fold_accumulators(forced) ELSE forced,
           fl)

\* current_time_ms - last_save_time_ms >= interval in uint32_t arithmetic,
\* for times below 2^31: a difference that wraps is above 2^31
elapsed_at_least(current_time_ms, last, interval) ==
    IF current_time_ms >= last THEN current_time_ms - last >= interval
    ELSE TRUE

\* variant: only the time triggers a flush
nvs_storage_periodic_update_time_only(st, fl, current_time_ms, distance_delta_km, fuel_delta_liters) ==
    IF ~st.initialized THEN [storage |-> st, flash |-> fl]
    ELSE LET acc == [st EXCEPT
                       !.distance_accumulator = @ + distance_delta_km,
                       !.fuel_accumulator = @ + fuel_delta_liters]
             folded == [fold_accumulators(acc) EXCEPT
                          !.dirty = acc.dirty
                                    \cup {"trip_a", "trip_b", "lifetime"}]
             saved == nvs_storage_save_all(folded, fl)
         IN IF elapsed_at_least(current_time_ms, st.last_save_time_ms,
                                SAVE_INTERVAL_MS)
            THEN [storage |-> [saved.storage EXCEPT
                                 !.last_save_time_ms = current_time_ms],
                  flash |-> saved.flash]
            ELSE [storage |-> acc, flash |-> fl]

\* nvs_storage_periodic_update
nvs_storage_periodic_update(st, fl, current_time_ms, distance_delta_km, fuel_delta_liters) ==
    IF ~st.initialized THEN [storage |-> st, flash |-> fl]
    ELSE LET acc == [st EXCEPT
                       !.distance_accumulator = @ + distance_delta_km,
                       !.fuel_accumulator = @ + fuel_delta_liters]
             should_save ==
                 \/ elapsed_at_least(current_time_ms, st.last_save_time_ms,
                                     SAVE_INTERVAL_MS)
                 \/ acc.distance_accumulator >= DISTANCE_THRESHOLD_KM
             folded == [fold_accumulators(acc) EXCEPT
                          !.dirty = acc.dirty
                                    \cup {"trip_a", "trip_b", "lifetime"}]
             saved == nvs_storage_save_all(folded, fl)
         IN IF should_save
            THEN [storage |-> [saved.storage EXCEPT
                                 !.last_save_time_ms = current_time_ms],
                  flash |-> saved.flash]
            ELSE [storage |-> acc, flash |-> fl]

\* nvs_trip_get_fuel_economy, L/100km in thousandths
nvs_trip_get_fuel_economy(trip) ==
    IF trip.distance_km < 1000 THEN 0
    ELSE (trip.fuel_used_liters * 100 * 1000) \div trip.distance_km

\* nvs_trip_reset
nvs_trip_reset(st, trip_id, current_time) ==
    LET trip == [ZeroTrip EXCEPT !.start_time = current_time,
                                 !.is_active = TRUE]
    IN IF trip_id > 1 THEN st
       ELSE IF trip_id = 0
       THEN [st EXCEPT !.trip_a = trip, !.dirty = st.dirty \cup {"trip_a"}]
       ELSE [st EXCEPT !.trip_b = trip, !.dirty = st.dirty \cup {"trip_b"}]

\* nvs_trip_update
nvs_trip_update(st, trip_id, distance_delta_km, fuel_delta_liters, duration_delta_sec) ==
    LET old == IF trip_id = 0 THEN st.trip_a ELSE st.trip_b
        sum == [old EXCEPT
                  !.distance_km = @ + distance_delta_km,
                  !.fuel_used_liters = @ + fuel_delta_liters,
                  !.duration_seconds = @ + duration_delta_sec]
        sped == IF sum.duration_seconds > 0
                THEN [sum EXCEPT !.avg_speed_kmh =
                        (sum.distance_km * 3600) \div sum.duration_seconds]
                ELSE sum
        trip == [sped EXCEPT
                   !.avg_fuel_economy = nvs_trip_get_fuel_economy(sped)]
    IN IF trip_id > 1 THEN st
       ELSE IF trip_id = 0
       THEN [st EXCEPT !.trip_a = trip, !.dirty = st.dirty \cup {"trip_a"}]
       ELSE [st EXCEPT !.trip_b = trip, !.dirty = st.dirty \cup {"trip_b"}]

\* variant: the flag is set in RAM only
nvs_system_shutdown_ram_only(st, fl) ==
    nvs_storage_emergency_save([st EXCEPT !.system.clean_shutdown = TRUE], fl)

\* nvs_system_shutdown
nvs_system_shutdown(st, fl) ==
    nvs_storage_emergency_save([st EXCEPT !.system.clean_shutdown = TRUE],
                               prefs_put(fl, "clean_shut", TRUE))

\* the first half of nvs_system_shutdown: the flag set in RAM and written
\* to flash; nvs_storage_emergency_save follows
nvs_system_shutdown_flag(st, fl) ==
    [storage |-> [st EXCEPT !.system.clean_shutdown = TRUE],
     flash |-> prefs_put(fl, "clean_shut", TRUE)]

\* nvs_settings_set
nvs_settings_set(st, settings) ==
    [st EXCEPT !.settings = settings, !.dirty = st.dirty \cup {"settings"}]

\* the settings the user chooses between
SettingsChoices ==
    {default_settings,
     [default_settings EXCEPT !.units = 0, !.brightness = 50]}

\* nvs_system_was_clean_shutdown
nvs_system_was_clean_shutdown(st) == st.system.clean_shutdown

NvsNoCall == [op |-> "none"]

NvsInit ==
    /\ storage = ZeroStorage
    /\ flash = ErasedFlash
    /\ nvs_power = "off"
    /\ nvs_call = NvsNoCall

\* power-on: setup() runs nvs_storage_init
NvsBoot ==
    \E opened \in prefs_begin_readonly(flash) :
        LET r == nvs_storage_init(flash, opened)
        IN /\ nvs_power = "off"
           /\ prefs_get(flash, "boot_count", 0) < MaxBoots
           /\ storage' = r.storage
           /\ flash' = r.flash
           /\ nvs_power' = "on"
           /\ nvs_call' = [op |-> "init",
                           loaded_clean |-> r.loaded_clean,
                           loaded_crash |-> r.loaded_crash,
                           loaded_boot |-> r.loaded_boot,
                           first |-> flash.keys \cap SystemKeys = {},
                           after_shutdown |-> nvs_call.op = "shutdown"]
           /\ UNCHANGED notNvs

\* the firmware calls nvs_system_shutdown
NvsShutdown ==
    LET r == nvs_system_shutdown(storage, flash)
    IN /\ nvs_power = "on"
       /\ storage' = r.storage
       /\ flash' = r.flash
       /\ nvs_call' = [op |-> "shutdown"]
       /\ UNCHANGED <<nvs_power, notNvs>>

\* the user changes a setting
NvsSettingsSet ==
    \E settings \in SettingsChoices :
    /\ nvs_power = "on"
    /\ "settings" \notin storage.dirty
    /\ storage' = nvs_settings_set(storage, settings)
    /\ UNCHANGED <<flash, nvs_power, nvs_call, notNvs>>

\* the storage task saves what is dirty
NvsSaveAll ==
    /\ nvs_power = "on"
    /\ storage.dirty # {}
    /\ storage' = nvs_storage_save_all(storage, flash).storage
    /\ flash' = nvs_storage_save_all(storage, flash).flash
    /\ UNCHANGED <<nvs_power, nvs_call, notNvs>>

\* the supply goes away: RAM is lost, flash stays
NvsPowerOff ==
    /\ nvs_power = "on"
    /\ nvs_power' = "off"
    /\ storage' = ZeroStorage
    /\ nvs_call' = IF nvs_call.op = "shutdown" THEN nvs_call ELSE NvsNoCall
    /\ UNCHANGED <<flash, notNvs>>

NvsNext == NvsBoot \/ NvsShutdown \/ NvsSettingsSet \/ NvsSaveAll \/ NvsPowerOff

(***************************************************************************)
(* CAN receive pipeline (main.cpp process_j1939_frame, j1939_parser.cpp)   *)
(* Decoded values are in thousandths, like the values of the store.        *)
(***************************************************************************)
J1939_MAX_DATA_LENGTH == 8
J1939_NOT_AVAILABLE_8 == 255
J1939_ERROR_8 == 254
J1939_ERROR_16_BASE == 65024

\* frames the model lets the bus deliver
MaxFrames == 2

j1939_is_valid_8(value) ==
    value # J1939_NOT_AVAILABLE_8 /\ value # J1939_ERROR_8

\* variant: the error base itself passes
j1939_is_valid_16_through_base(value) == value <= J1939_ERROR_16_BASE

j1939_is_valid_16(value) == value < J1939_ERROR_16_BASE

\* variant: the data page is taken as bit 24 alone
j1939_extract_pgn_one_page_bit(can_id) ==
    LET pdu_format == (can_id \div 65536) % 256
        pdu_specific == (can_id \div 256) % 256
        data_page == (can_id \div 16777216) % 2
    IN IF pdu_format < 240
       THEN data_page * 65536 + pdu_format * 256
       ELSE data_page * 65536 + pdu_format * 256 + pdu_specific

j1939_extract_pgn(can_id) ==
    LET pdu_format == (can_id \div 65536) % 256
        pdu_specific == (can_id \div 256) % 256
        data_page == (can_id \div 16777216) % 4
    IN IF pdu_format < 240
       THEN data_page * 65536 + pdu_format * 256
       ELSE data_page * 65536 + pdu_format * 256 + pdu_specific

j1939_extract_source_address(can_id) == can_id % 256

j1939_extract_priority(can_id) == (can_id \div 67108864) % 8

j1939_extract_destination(can_id) ==
    IF (can_id \div 65536) % 256 < 240 THEN (can_id \div 256) % 256 ELSE 255

\* a | b on naturals
RECURSIVE BitOr(_, _)
BitOr(a, b) ==
    IF a = 0 THEN b
    ELSE IF b = 0 THEN a
    ELSE (IF a % 2 = 1 \/ b % 2 = 1 THEN 1 ELSE 0)
             + 2 * BitOr(a \div 2, b \div 2)

\* ((uint32_t)(priority & 0x07) << 26) | (pgn << 8) | source_address; the
\* shift drops the bits of pgn above bit 23
j1939_build_can_id(pgn, source_address, priority) ==
    BitOr(BitOr((priority % 8) * 67108864, (pgn % 16777216) * 256),
          source_address)

\* stack: what the bytes of the local msg hold before the call; memcpy
\* overwrites the first data_len of them
j1939_parse_frame(can_id, data, data_len, timestamp_ms, stack) ==
    IF data_len = 0 \/ data_len > J1939_MAX_DATA_LENGTH
    THEN [ok |-> FALSE, msg |-> NoMsg]
    ELSE [ok |-> TRUE,
          msg |-> [pgn |-> j1939_extract_pgn(can_id),
                   source_address |-> j1939_extract_source_address(can_id),
                   priority |-> j1939_extract_priority(can_id),
                   destination |-> j1939_extract_destination(can_id),
                   data_length |-> data_len,
                   timestamp_ms |-> timestamp_ms,
                   data |-> [i \in 1 .. J1939_MAX_DATA_LENGTH |->
                                IF i <= data_len THEN data[i] ELSE stack[i]]]]

\* (uint16_t)lo | ((uint16_t)hi << 8)
U16(lo, hi) == lo + 256 * hi

\* conversion of a value in -256 .. 255 to int8_t
ToInt8(x) == ((x + 128) % 256) - 128

\* the decoders; data[k] of the C code is data[k + 1] here
j1939_decode_engine_speed(data) ==
    LET raw == U16(data[4], data[5])
    IN IF ~j1939_is_valid_16(raw) THEN -1000 ELSE raw * 125

j1939_decode_coolant_temp(data) ==
    LET raw == data[1]
    IN IF ~j1939_is_valid_8(raw) THEN -9999000 ELSE (raw - 40) * 1000

j1939_decode_vehicle_speed(data) ==
    LET raw == U16(data[2], data[3])
    IN IF ~j1939_is_valid_16(raw) THEN -1000 ELSE (raw * 1000) \div 256

j1939_decode_oil_pressure(data) ==
    LET raw == data[4]
    IN IF ~j1939_is_valid_8(raw) THEN -1000 ELSE raw * 4000

j1939_decode_boost_pressure(data) ==
    LET raw == data[2]
    IN IF ~j1939_is_valid_8(raw) THEN -1000 ELSE raw * 2000

j1939_decode_fuel_level(data) ==
    LET raw == data[2]
    IN IF ~j1939_is_valid_8(raw) THEN -1000 ELSE raw * 400

j1939_decode_battery_voltage(data) ==
    LET raw == U16(data[7], data[8])
    IN IF ~j1939_is_valid_16(raw) THEN -1000 ELSE raw * 50

\* returns an int8_t, not thousandths
j1939_decode_current_gear(data) ==
    LET raw == data[4]
    IN IF ~j1939_is_valid_8(raw) THEN -126 ELSE ToInt8(raw - 125)

j1939_decode_trans_oil_temp(data) ==
    LET raw == U16(data[5], data[6])
    IN IF ~j1939_is_valid_16(raw) THEN -9999000
       ELSE (raw * 3125) \div 100 - 273000

\* raw == 0xFFFFFFFF is tested byte by byte; the frames of the model keep
\* raw * 50 below 2^31
j1939_decode_engine_hours(data) ==
    IF data[1] = 255 /\ data[2] = 255 /\ data[3] = 255 /\ data[4] = 255
    THEN -1000
    ELSE (data[1] + 256 * data[2] + 65536 * data[3] + 16777216 * data[4]) * 50

j1939_decode_fuel_rate(data) ==
    LET raw == U16(data[1], data[2])
    IN IF ~j1939_is_valid_16(raw) THEN -1000 ELSE raw * 50

j1939_decode_throttle_position(data) ==
    LET raw == data[2]
    IN IF ~j1939_is_valid_8(raw) THEN -1000 ELSE raw * 400

j1939_decode_ambient_temp(data) ==
    LET raw == U16(data[4], data[5])
    IN IF ~j1939_is_valid_16(raw) THEN -9999000
       ELSE (raw * 3125) \div 100 - 273000

\* the while loop of j1939_parse_dm1: dtcs is the list filled so far; the
\* source_address of an entry is not assigned
RECURSIVE dm1_records(_, _, _, _, _)
dm1_records(data, len, offset, dtcs, max_dtcs) ==
    IF offset + 4 <= len /\ Len(dtcs) < max_dtcs
    THEN LET b0 == BufRead(data, offset)
             b1 == BufRead(data, offset + 1)
             b2 == BufRead(data, offset + 2)
             b3 == BufRead(data, offset + 3)
             spn == b0 + 256 * b1 + ((b2 \div 32) * 32) * 2048
             fmi == b2 % 32
             oc == b3 % 128
         IN dm1_records(data, len, offset + 4,
                IF spn # 0 \/ fmi # 0
                THEN Append(dtcs, [spn |-> spn, fmi |-> fmi, oc |-> oc,
                                   is_active |-> TRUE])
                ELSE dtcs,
                max_dtcs)
    ELSE dtcs

\* variant: the records are read from the lamp bytes on
j1939_parse_dm1_from_lamps(data, len, max_dtcs) ==
    IF len < 2 \/ max_dtcs = 0 THEN <<>>
    ELSE dm1_records(data, len, 0, <<>>, max_dtcs)

j1939_parse_dm1(data, len, max_dtcs) ==
    IF len < 2 \/ max_dtcs = 0 THEN <<>>
    ELSE dm1_records(data, len, 2, <<>>, max_dtcs)

nvs_lifetime_set_engine_hours(st, hours) ==
    [st EXCEPT !.lifetime.engine_hours = hours,
               !.dirty = st.dirty \cup {"lifetime"}]

\* variant: a full history always gives up its first entry
nvs_dtc_store_evict_first(st, spn, fmi, source_address, timestamp, is_active) ==
    LET hits == {i \in 1 .. st.dtc_count :
                    /\ st.dtc_history[i].spn = spn
                    /\ st.dtc_history[i].fmi = fmi
                    /\ st.dtc_history[i].source_address = source_address}
        fresh == [spn |-> spn, fmi |-> fmi, source_address |-> source_address,
                  first_seen |-> timestamp, last_seen |-> timestamp,
                  occurrence_count |-> 1, is_active |-> is_active]
        marked == [st EXCEPT !.dirty = st.dirty \cup {"dtc"}]
    IN IF hits # {}
       THEN LET i == CHOOSE h \in hits : \A k \in hits : h <= k
            IN [marked EXCEPT !.dtc_history[i] =
                   [@ EXCEPT !.last_seen = timestamp,
                             !.occurrence_count = (@ + 1) % 65536,
                             !.is_active = is_active]]
       ELSE IF st.dtc_count < NVS_MAX_DTC_HISTORY
       THEN [marked EXCEPT !.dtc_history = Append(st.dtc_history, fresh),
                           !.dtc_count = st.dtc_count + 1]
       ELSE [marked EXCEPT !.dtc_history[1] = fresh]

nvs_dtc_store(st, spn, fmi, source_address, timestamp, is_active) ==
    LET hits == {i \in 1 .. st.dtc_count :
                    /\ st.dtc_history[i].spn = spn
                    /\ st.dtc_history[i].fmi = fmi
                    /\ st.dtc_history[i].source_address = source_address}
        fresh == [spn |-> spn, fmi |-> fmi, source_address |-> source_address,
                  first_seen |-> timestamp, last_seen |-> timestamp,
                  occurrence_count |-> 1, is_active |-> is_active]
        marked == [st EXCEPT !.dirty = st.dirty \cup {"dtc"}]
    IN IF hits # {}
       THEN LET i == CHOOSE h \in hits : \A k \in hits : h <= k
            IN [marked EXCEPT !.dtc_history[i] =
                   [@ EXCEPT !.last_seen = timestamp,
                             !.occurrence_count = (@ + 1) % 65536,
                             !.is_active = is_active]]
       ELSE IF st.dtc_count < NVS_MAX_DTC_HISTORY
       THEN [marked EXCEPT !.dtc_history = Append(st.dtc_history, fresh),
                           !.dtc_count = st.dtc_count + 1]
       ELSE LET oldest == CHOOSE i \in 1 .. NVS_MAX_DTC_HISTORY :
                              \A k \in 1 .. NVS_MAX_DTC_HISTORY :
                                  /\ st.dtc_history[i].last_seen
                                         <= st.dtc_history[k].last_seen
                                  /\ k < i => st.dtc_history[k].last_seen
                                                  > st.dtc_history[i].last_seen
            IN [marked EXCEPT !.dtc_history[oldest] = fresh]

\* the "Store in NVS" loop of process_j1939_frame from entry i on; junk[i]
\* is what the unassigned dtcs[i].source_address holds
RECURSIVE can_store_dtcs(_, _, _, _, _)
can_store_dtcs(st, dtcs, junk, timestamp, i) ==
    IF i > Len(dtcs) THEN st
    ELSE can_store_dtcs(
             nvs_dtc_store(st, dtcs[i].spn, dtcs[i].fmi, junk[i], timestamp, TRUE),
             dtcs, junk, timestamp, i + 1)

\* the transport branch of process_j1939_frame
can_tp_branch(c, d, st, msg, now, junk) ==
    LET h == j1939_tp_handle_frame(c, msg)
    IN IF ~h.ret
       THEN [ctx |-> h.ctx, dm |-> d, storage |-> st, notified |-> <<>>]
       ELSE LET g == j1939_tp_get_data(h.ctx, msg.source_address, 256)
            IN IF g.ret > 0 /\ g.pgn = PGN_DM1
               THEN LET dtcs == j1939_parse_dm1(g.data, g.ret, 8)
                        u == data_manager_update(d, PARAM_ACTIVE_DTC_COUNT,
                                 Len(dtcs) * 1000, SOURCE_J1939, now)
                    IN [ctx |-> g.ctx, dm |-> u.dm,
                        storage |-> can_store_dtcs(st, dtcs, junk, now \div 1000, 1),
                        notified |-> u.notified]
               ELSE [ctx |-> g.ctx, dm |-> d, storage |-> st,
                     notified |-> <<>>]

\* the switch of process_j1939_frame: the identity, the decoded value and
\* whether the guard lets the value through
can_decode(msg) ==
    CASE msg.pgn = 61444 ->
             LET value == j1939_decode_engine_speed(msg.data)
             IN [id |-> PARAM_ENGINE_SPEED, value |-> value, pass |-> value >= 0]
      [] msg.pgn = 61443 ->
             LET value == j1939_decode_throttle_position(msg.data)
             IN [id |-> PARAM_THROTTLE_POSITION, value |-> value, pass |-> value >= 0]
      [] msg.pgn = 65262 ->
             LET value == j1939_decode_coolant_temp(msg.data)
             IN [id |-> PARAM_COOLANT_TEMP, value |-> value, pass |-> value > -9000000]
      [] msg.pgn = 65263 ->
             LET value == j1939_decode_oil_pressure(msg.data)
             IN [id |-> PARAM_OIL_PRESSURE, value |-> value, pass |-> value >= 0]
      [] msg.pgn = 65265 ->
             LET value == j1939_decode_vehicle_speed(msg.data)
             IN [id |-> PARAM_VEHICLE_SPEED, value |-> value, pass |-> value >= 0]
      [] msg.pgn = 65266 ->
             LET value == j1939_decode_fuel_rate(msg.data)
             IN [id |-> PARAM_FUEL_RATE, value |-> value, pass |-> value >= 0]
      [] msg.pgn = 65269 ->
             LET value == j1939_decode_ambient_temp(msg.data)
             IN [id |-> PARAM_AMBIENT_TEMP, value |-> value, pass |-> value > -9000000]
      [] msg.pgn = 65270 ->
             LET value == j1939_decode_boost_pressure(msg.data)
             IN [id |-> PARAM_BOOST_PRESSURE, value |-> value, pass |-> value >= 0]
      [] msg.pgn = 65271 ->
             LET value == j1939_decode_battery_voltage(msg.data)
             IN [id |-> PARAM_BATTERY_VOLTAGE, value |-> value, pass |-> value >= 0]
      [] msg.pgn = 65272 ->
             LET value == j1939_decode_trans_oil_temp(msg.data)
             IN [id |-> PARAM_TRANS_OIL_TEMP, value |-> value, pass |-> value > -9000000]
      [] msg.pgn = 65276 ->
             LET value == j1939_decode_fuel_level(msg.data)
             IN [id |-> PARAM_FUEL_LEVEL_1, value |-> value, pass |-> value >= 0]
      [] msg.pgn = 65253 ->
             LET value == j1939_decode_engine_hours(msg.data)
             IN [id |-> PARAM_ENGINE_HOURS, value |-> value, pass |-> value >= 0]
      [] msg.pgn = 61445 ->
             LET gear == j1939_decode_current_gear(msg.data)
             IN [id |-> PARAM_CURRENT_GEAR, value |-> gear * 1000, pass |-> gear > -126]
      [] OTHER -> [id |-> PARAM_NONE, value |-> 0, pass |-> FALSE]

\* the parameter branch of process_j1939_frame
can_param_branch(c, d, st, msg, now) ==
    LET dec == can_decode(msg)
    IN IF ~dec.pass
       THEN [ctx |-> c, dm |-> d, storage |-> st, notified |-> <<>>]
       ELSE LET u == data_manager_update(d, dec.id, dec.value, SOURCE_J1939, now)
            IN [ctx |-> c, dm |-> u.dm,
                storage |-> IF dec.id = PARAM_ENGINE_HOURS
                            THEN nvs_lifetime_set_engine_hours(st, dec.value)
                            ELSE st,
                notified |-> u.notified]

\* process_j1939_frame; now is what millis() returns during the call
process_j1939_frame(c, d, st, received, frame, now, stack, junk) ==
    IF ~frame.extd
    THEN [ctx |-> c, dm |-> d, storage |-> st, received |-> received,
          parsed |-> FALSE, msg |-> NoMsg, notified |-> <<>>]
    ELSE LET p == j1939_parse_frame(frame.identifier, frame.data,
                                    frame.data_length_code, now, stack)
         IN IF ~p.ok
            THEN [ctx |-> c, dm |-> d, storage |-> st,
                  received |-> received + 1,
                  parsed |-> FALSE, msg |-> NoMsg, notified |-> <<>>]
            ELSE LET r == IF p.msg.pgn = PGN_TP_CM \/ p.msg.pgn = PGN_TP_DT
                          THEN can_tp_branch(c, d, st, p.msg, now, junk)
                          ELSE can_param_branch(c, d, st, p.msg, now)
                 IN [ctx |-> r.ctx, dm |-> r.dm, storage |-> r.storage,
                     received |-> received + 1,
                     parsed |-> TRUE, msg |-> p.msg, notified |-> r.notified]

\* ---- the bus ----
\* the signal of each decoded group: identity, first byte (data[at] here),
\* width in bytes
CanSignals ==
    {[pgn |-> 61444, id |-> PARAM_ENGINE_SPEED, at |-> 4, width |-> 2],
     [pgn |-> 61443, id |-> PARAM_THROTTLE_POSITION, at |-> 2, width |-> 1],
     [pgn |-> 65262, id |-> PARAM_COOLANT_TEMP, at |-> 1, width |-> 1],
     [pgn |-> 65263, id |-> PARAM_OIL_PRESSURE, at |-> 4, width |-> 1],
     [pgn |-> 65265, id |-> PARAM_VEHICLE_SPEED, at |-> 2, width |-> 2],
     [pgn |-> 65266, id |-> PARAM_FUEL_RATE, at |-> 1, width |-> 2],
     [pgn |-> 65269, id |-> PARAM_AMBIENT_TEMP, at |-> 4, width |-> 2],
     [pgn |-> 65270, id |-> PARAM_BOOST_PRESSURE, at |-> 2, width |-> 1],
     [pgn |-> 65271, id |-> PARAM_BATTERY_VOLTAGE, at |-> 7, width |-> 2],
     [pgn |-> 65272, id |-> PARAM_TRANS_OIL_TEMP, at |-> 5, width |-> 2],
     [pgn |-> 65276, id |-> PARAM_FUEL_LEVEL_1, at |-> 2, width |-> 1],
     [pgn |-> 65253, id |-> PARAM_ENGINE_HOURS, at |-> 1, width |-> 4],
     [pgn |-> 61445, id |-> PARAM_CURRENT_GEAR, at |-> 4, width |-> 1]}

\* raw signals put on the bus, low byte first: a valid one (for two bytes
\* the largest, 0xFDFF) and the sentinels (error, not available)
CanRaws(width) ==
    IF width = 1 THEN {<<125>>, <<254>>, <<255>>}
    ELSE IF width = 2 THEN {<<255, 253>>, <<0, 254>>, <<255, 255>>}
    ELSE {<<255, 255, 255, 0>>, <<255, 255, 255, 255>>}

\* the signals that a frame of 4 bytes does not carry in full
CanCutSignals == {sig \in CanSignals : sig.at + sig.width - 1 > 4}

\* a 29-bit identifier: priority, PDU format, PDU specific, source address
BusId(priority, pf, ps, sa) ==
    priority * 67108864 + pf * 65536 + ps * 256 + sa

\* a twai_message_t carrying the raw signal, the other bytes being 125
SignalFrame(sig, raw, dlc) ==
    [extd |-> TRUE,
     identifier |-> BusId(6, sig.pgn \div 256, sig.pgn % 256, 0),
     data_length_code |-> dlc,
     data |-> [i \in 1 .. 8 |->
                  IF i >= sig.at /\ i < sig.at + sig.width
                  THEN raw[i - sig.at + 1] ELSE 125]]

\* the transport frames of a sender 0 that reports one fault in a DM1 of
\* 6 bytes: the announce, an announce of another group, the data packet
CanTpFrames ==
    {[extd |-> TRUE, identifier |-> BusId(6, 236, 255, 0),
      data_length_code |-> 8,
      data |-> BamFrame(0, 6, 1, PGN_DM1, 0).data],
     [extd |-> TRUE, identifier |-> BusId(6, 236, 255, 0),
      data_length_code |-> 8,
      data |-> BamFrame(0, 6, 1, 65260, 0).data],
     [extd |-> TRUE, identifier |-> BusId(6, 235, 255, 0),
      data_length_code |-> 8,
      data |-> <<1, 4, 16, 100, 0, 1, 1, 255>>]}

\* frames the pipeline drops or ignores: a standard frame, an empty
\* frame, a group that is not decoded
CanOtherFrames ==
    {[extd |-> FALSE, identifier |-> 256, data_length_code |-> 8,
      data |-> [i \in 1 .. 8 |-> 125]],
     [extd |-> TRUE, identifier |-> BusId(6, 240, 4, 0), data_length_code |-> 0,
      data |-> [i \in 1 .. 8 |-> 125]],
     [extd |-> TRUE, identifier |-> BusId(6, 255, 0, 0), data_length_code |-> 8,
      data |-> [i \in 1 .. 8 |-> 125]]}

\* what uninitialised bytes of the stack may hold
JunkBytes == {125, 255}
CanStacks == {[i \in 1 .. 8 |-> b] : b \in JunkBytes}
ZeroStack == [i \in 1 .. 8 |-> 0]

CanNoCall == [parsed |-> FALSE, msg |-> NoMsg, notified |-> <<>>]

CanInit ==
    /\ g_can_frames_received = 0
    /\ can_call = CanNoCall

\* can_task hands one received frame to process_j1939_frame
CanHandle(frame, stack, junk) ==
    LET now == tp_now + 1
        r == process_j1939_frame(ctx, dm, storage, g_can_frames_received,
                                 frame, now, stack, junk)
    IN /\ nvs_power = "on"
       /\ tp_now < MaxFrames
       /\ tp_now' = now
       /\ ctx' = r.ctx
       /\ dm' = r.dm
       /\ dm_updated' = dm_updated \cup TouchedIds(dm, r.dm)
       /\ storage' = r.storage
       /\ g_can_frames_received' = r.received
       /\ can_call' = [parsed |-> r.parsed, msg |-> r.msg,
                       notified |-> r.notified]
       /\ UNCHANGED notCan

\* a frame of a decoded group with all 8 bytes
CanSignalFrame ==
    \E sig \in CanSignals :
    \E raw \in CanRaws(sig.width) :
        CanHandle(SignalFrame(sig, raw, 8), ZeroStack, ZeroStack)

\* a frame of a decoded group that carries 4 bytes only: the decoders of
\* the signals placed further back read bytes of msg.data that
\* j1939_parse_frame did not write
CanShortFrame ==
    \E sig \in CanCutSignals, stack \in CanStacks :
    \E raw \in CanRaws(sig.width) :
        CanHandle(SignalFrame(sig, raw, 4), stack, ZeroStack)

\* a transport frame; a completed DM1 is parsed and stored
CanTpFrame ==
    \E frame \in CanTpFrames, junk \in CanStacks :
        CanHandle(frame, ZeroStack, junk)

CanOtherFrame ==
    \E frame \in CanOtherFrames : CanHandle(frame, ZeroStack, ZeroStack)

CanNext ==
    \/ CanSignalFrame \/ CanShortFrame \/ CanTpFrame \/ CanOtherFrame
    \/ NvsBoot \/ DmRegisterCallback

\* ---- ETC2 frames ----
\* raw gears put on the bus: the ends of the range, reverse, neutral, 8th,
\* park (251), the largest raw below the sentinels, and the sentinels
GearRaws == {0, 124, 125, 133, 251, 253, 254, 255}

GearSignal == CHOOSE sig \in CanSignals : sig.pgn = 61445

\* an ETC2 frame with all 8 bytes
GearFrame ==
    \E raw \in GearRaws :
        CanHandle(SignalFrame(GearSignal, <<raw>>, 8), ZeroStack, ZeroStack)

GearNext == GearFrame \/ NvsBoot

\* ---- simulation mode ----
\* the calls of send_can_frame in sim_update: the group and the sender
SimEmissions ==
    {<<61444, 0>>, <<61443, 0>>, <<65262, 0>>, <<65263, 0>>, <<65270, 0>>,
     <<65272, 3>>, <<65253, 0>>, <<65265, 0>>, <<65266, 0>>, <<61445, 3>>,
     <<65271, 0>>, <<65276, 0>>, <<65226, 0>>}

\* frames the harness emits in one behaviour
MaxSimFrames == 3

\* build_pgn_65226_dm1 while no fault is active, and with fault spn 100,
\* fmi 1 seen once
SimNoFault == <<0, 0, 255, 255, 255, 255, 125, 125>>
SimFault == <<20, 0, 100, 0, 8, 1, 125, 125>>

\* the payloads the harness builds for a group
SimData(pgn) ==
    IF pgn = 65226 THEN {SimNoFault, SimFault}
    ELSE UNION {{SignalFrame(sig, raw, 8).data : raw \in CanRaws(sig.width)} :
                   sig \in {g \in CanSignals : g.pgn = pgn}}

\* send_can_frame: j1939_build_can_id takes (pgn, source_address, priority)
\* and is called with (6, pgn, source_addr); the second argument is
\* converted to uint8_t
send_can_frame(pgn, source_addr, data) ==
    [can_id |-> j1939_build_can_id(6, pgn % 256, source_addr),
     data |-> data, len |-> 8]

\* the switch of sim_can_callback: that of process_j1939_frame without the
\* ambient temperature
sim_decode(msg) ==
    IF msg.pgn = 65269
    THEN [id |-> PARAM_NONE, value |-> 0, pass |-> FALSE]
    ELSE can_decode(msg)

\* sim_can_callback; all 8 bytes of the local msg are written by the copy
sim_can_callback(d, received, can_id, data, len, now) ==
    LET p == j1939_parse_frame(can_id, data, len, now, ZeroStack)
    IN IF ~p.ok
       THEN [dm |-> d, received |-> received + 1, parsed |-> FALSE,
             msg |-> NoMsg, notified |-> <<>>]
       ELSE LET dec == sim_decode(p.msg)
            IN IF ~dec.pass
               THEN [dm |-> d, received |-> received + 1, parsed |-> TRUE,
                     msg |-> p.msg, notified |-> <<>>]
               ELSE LET u == data_manager_update(d, dec.id, dec.value,
                                                 SOURCE_J1939, now)
                    IN [dm |-> u.dm, received |-> received + 1,
                        parsed |-> TRUE, msg |-> p.msg,
                        notified |-> u.notified]

\* sim_update emits one frame and the raw-frame callback handles it
SimFrame ==
    \E e \in SimEmissions :
    \E data \in SimData(e[1]) :
        LET now == tp_now + 1
            f == send_can_frame(e[1], e[2], data)
            r == sim_can_callback(dm, g_can_frames_received, f.can_id,
                                  f.data, f.len, now)
        IN /\ tp_now < MaxSimFrames
           /\ tp_now' = now
           /\ dm' = r.dm
           /\ dm_updated' = dm_updated \cup TouchedIds(dm, r.dm)
           /\ g_can_frames_received' = r.received
           /\ can_call' = [parsed |-> r.parsed, msg |-> r.msg,
                           notified |-> r.notified]
           /\ fn_call' = [fn |-> "send_can_frame", pgn |-> e[1],
                          source_addr |-> e[2], can_id |-> f.can_id,
                          data |-> f.data]
           /\ UNCHANGED <<ctx, storage, tp_call, tp_script, dm_call, ccVars,
                          jVars, flash, nvs_power, nvs_call, dtc_env, wlm>>

(***************************************************************************)
(* Fault history: direct calls of nvs_dtc_store, nvs_dtc_clear_active and  *)
(* nvs_dtc_clear_all (nvs_storage.cpp)                                     *)
(***************************************************************************)
\* distinct faults raised; calls other than the store of a fresh fault
MaxFaults == 22
MaxExtra == 1

nvs_dtc_clear_active(st) ==
    [st EXCEPT !.dtc_history =
                   [i \in 1 .. st.dtc_count |->
                       [st.dtc_history[i] EXCEPT !.is_active = FALSE]],
               !.dirty = st.dirty \cup {"dtc"}]

\* the zeroed entries past dtc_count are not kept
nvs_dtc_clear_all(st) ==
    [st EXCEPT !.dtc_count = 0, !.dtc_history = <<>>,
               !.dirty = st.dirty \cup {"dtc"}]

\* fault number n: faults 2k and 2k + 1 share spn and fmi and differ in the
\* source address
Fault(n) == [spn |-> 100 + n \div 2, fmi |-> 1, source_address |-> n % 2]

\* the faults that are reported more than once
RepeatedFaults == {1, 2}

DtcNoCall == [fn |-> "none", spn |-> 0, fmi |-> 0, source_address |-> 0,
              timestamp |-> 0]

DtcInit ==
    dtc_env = [call |-> DtcNoCall, raised |-> 0, extra |-> 0, restores |-> 0,
               clock |-> 0]

DtcStore(f, timestamp, env) ==
    /\ nvs_power = "on"
    /\ storage' = nvs_dtc_store(storage, f.spn, f.fmi, f.source_address,
                                timestamp, TRUE)
    /\ dtc_env' = [env EXCEPT !.call = [fn |-> "store", spn |-> f.spn,
                                        fmi |-> f.fmi,
                                        source_address |-> f.source_address,
                                        timestamp |-> timestamp],
                              !.clock = dtc_env.clock + 1]
    /\ UNCHANGED notDtc

\* a fault that has not been reported before is stored
DtcStoreNew ==
    /\ dtc_env.raised < MaxFaults
    /\ DtcStore(Fault(dtc_env.raised + 1), dtc_env.clock + 1,
                [dtc_env EXCEPT !.raised = dtc_env.raised + 1])

\* a fault reported before is stored again, with the current time or with
\* a timestamp from before every entry
DtcStoreAgain ==
    \E n \in RepeatedFaults, timestamp \in {0, dtc_env.clock + 1} :
        /\ n <= dtc_env.raised
        /\ dtc_env.extra < MaxExtra
        /\ DtcStore(Fault(n), timestamp,
                    [dtc_env EXCEPT !.extra = dtc_env.extra + 1,
                                    !.restores = 1])

DtcClearActive ==
    /\ nvs_power = "on"
    /\ dtc_env.extra < MaxExtra
    /\ storage' = nvs_dtc_clear_active(storage)
    /\ dtc_env' = [dtc_env EXCEPT !.call = [DtcNoCall EXCEPT !.fn = "clear_active"],
                                  !.extra = dtc_env.extra + 1]
    /\ UNCHANGED notDtc

DtcClearAll ==
    /\ nvs_power = "on"
    /\ dtc_env.extra < MaxExtra
    /\ storage' = nvs_dtc_clear_all(storage)
    /\ dtc_env' = [dtc_env EXCEPT !.call = [DtcNoCall EXCEPT !.fn = "clear_all"],
                                  !.extra = dtc_env.extra + 1]
    /\ UNCHANGED notDtc

DtcNext ==
    \/ DtcStoreNew \/ DtcStoreAgain \/ DtcClearActive \/ DtcClearAll
    \/ NvsBoot

(***************************************************************************)
(* Persistent storage: trips, lifetime, settings and the flush             *)
(* (nvs_storage.cpp; main.cpp storage_task)                                *)
(***************************************************************************)
\* odometer and fuel the model follows, in thousandths of a km and of a
\* litre; seconds of a trip
MaxDistance == 2000
MaxFuel == 200
MaxDuration == 60

\* millis() at the calls of the storage task
UpdateTimes == {10000, 300000}
DistanceDeltas == {0, 600}
FuelDeltas == {50}

\* the namespaces that fail to open for writing, together
FaultSets == {{}, {"trip_a", "dtc"}}

\* the call a storage step made; flip tells two equal calls apart
SaveCall(op, ok, args) ==
    [op |-> op, ok |-> ok, args |-> args,
     flip |-> IF nvs_call.op \in {"periodic_update", "save_all",
                                  "emergency_save", "other"}
              THEN 1 - nvs_call.flip ELSE 0]

\* storage_task: nvs_storage_periodic_update with millis(), which does not
\* run backwards below its wrap
SavePeriodicUpdate ==
    \E current_time_ms \in UpdateTimes, distance_delta_km \in DistanceDeltas,
       fuel_delta_liters \in FuelDeltas :
        LET r == nvs_storage_periodic_update(storage, flash, current_time_ms,
                                             distance_delta_km,
                                             fuel_delta_liters)
        IN /\ nvs_power = "on"
           /\ current_time_ms >= storage.last_save_time_ms
           /\ storage.lifetime.total_distance_km
                  + storage.distance_accumulator < MaxDistance
           /\ storage.lifetime.total_fuel_liters
                  + storage.fuel_accumulator < MaxFuel
           /\ storage' = r.storage
           /\ flash' = r.flash
           /\ nvs_call' = SaveCall("periodic_update", TRUE,
                                   <<current_time_ms, distance_delta_km,
                                     fuel_delta_liters>>)
           /\ UNCHANGED <<nvs_power, notNvs>>

\* a flush tick: nvs_storage_save_all
SaveAll ==
    LET r == nvs_storage_save_all(storage, flash)
    IN /\ nvs_power = "on"
       /\ storage.dirty # {}
       /\ storage' = r.storage
       /\ flash' = r.flash
       /\ nvs_call' = SaveCall("save_all", r.ok, <<>>)
       /\ UNCHANGED <<nvs_power, notNvs>>

\* nvs_storage_emergency_save
SaveEmergency ==
    LET r == nvs_storage_emergency_save(storage, flash)
    IN /\ nvs_power = "on"
       /\ storage' = r.storage
       /\ flash' = r.flash
       /\ nvs_call' = SaveCall("emergency_save", r.ok, <<>>)
       /\ UNCHANGED <<nvs_power, notNvs>>

SaveOther(st) ==
    /\ nvs_power = "on"
    /\ st # storage
    /\ storage' = st
    /\ nvs_call' = SaveCall("other", TRUE, <<>>)
    /\ UNCHANGED <<flash, nvs_power, notNvs>>

\* the user starts a trip that is not running
SaveTripReset ==
    \E trip_id \in {0, 1} :
        /\ ~(IF trip_id = 0 THEN storage.trip_a ELSE storage.trip_b).is_active
        /\ SaveOther(nvs_trip_reset(storage, trip_id, 7))

SaveTripUpdate ==
    \E trip_id \in {0, 1} :
        /\ (IF trip_id = 0 THEN storage.trip_a ELSE storage.trip_b)
               .duration_seconds < MaxDuration
        /\ SaveOther(nvs_trip_update(storage, trip_id, 1000, 80, 60))

SaveSettingsSet ==
    \E settings \in SettingsChoices :
        /\ "settings" \notin storage.dirty
        /\ SaveOther(nvs_settings_set(storage, settings))

SaveDtcStore ==
    /\ storage.dtc_count = 0
    /\ SaveOther(nvs_dtc_store(storage, 100, 1, 0, 1, TRUE))

\* the engine reports its hours (thousandths)
SaveEngineHours ==
    /\ "lifetime" \notin storage.dirty
    /\ SaveOther(nvs_lifetime_set_engine_hours(storage, 1500))

\* a namespace stops or starts to open for writing
FlashFault ==
    \E broken \in FaultSets :
        /\ nvs_power = "on"
        /\ broken # flash.broken
        /\ flash' = [flash EXCEPT !.broken = broken]
        /\ UNCHANGED <<storage, nvs_power, nvs_call, notNvs>>

\* the flush and its triggers
SaveNext ==
    \/ NvsBoot
    \/ SavePeriodicUpdate \/ SaveAll \/ SaveEmergency \/ SaveSettingsSet
    \/ FlashFault

\* the calls that move the accumulators
FoldNext ==
    \/ NvsBoot
    \/ SavePeriodicUpdate \/ SaveEmergency \/ NvsShutdown \/ FlashFault

\* the user resets a trip, running or not, at any time
ResetTimes == {7}

ResetTrip ==
    \E trip_id \in {0, 1}, current_time \in ResetTimes :
        /\ nvs_power = "on"
        /\ storage' = nvs_trip_reset(storage, trip_id, current_time)
        /\ nvs_call' = [op |-> "trip_reset", ok |-> TRUE,
                        args |-> <<trip_id, current_time>>,
                        flip |-> IF nvs_call.op = "trip_reset"
                                 THEN 1 - nvs_call.flip ELSE 0]
        /\ UNCHANGED <<flash, nvs_power, notNvs>>

ResetNext == NvsBoot \/ SavePeriodicUpdate \/ SaveEmergency \/ ResetTrip

\* the records and their way to flash
RoundTripNext ==
    \/ NvsBoot
    \/ SaveTripReset \/ SaveTripUpdate \/ SaveSettingsSet \/ SaveDtcStore
    \/ SaveEngineHours \/ SaveAll

(***************************************************************************)
(* nvs_system_shutdown statement by statement, with the supply going away  *)
(* between the statements                                                  *)
(***************************************************************************)
\* what the RAM holds that flash does not hold yet
Pending(st) ==
    [dirty |-> st.dirty,
     distance |-> st.distance_accumulator,
     fuel |-> st.fuel_accumulator]

NothingPending(st) ==
    /\ st.dirty \cap {"trip_a", "trip_b", "lifetime"} = {}
    /\ st.distance_accumulator = 0
    /\ st.fuel_accumulator = 0

\* the storage task and the trip computer at work before the shutdown
ShutPeriodicUpdate ==
    /\ nvs_call.op \notin {"shutdown_flag", "shutdown"}
    /\ SavePeriodicUpdate

ShutTripUpdate ==
    /\ nvs_call.op \notin {"shutdown_flag", "shutdown"}
    /\ SaveTripUpdate

\* nvs_system_shutdown up to prefs_system.end()
ShutdownFlag ==
    LET r == nvs_system_shutdown_flag(storage, flash)
    IN /\ nvs_power = "on"
       /\ nvs_call.op \notin {"shutdown_flag", "shutdown"}
       /\ storage' = r.storage
       /\ flash' = r.flash
       /\ nvs_call' = [op |-> "shutdown_flag", pending |-> Pending(storage)]
       /\ UNCHANGED <<nvs_power, notNvs>>

\* the rest of nvs_system_shutdown: nvs_storage_emergency_save
ShutdownFlush ==
    LET r == nvs_storage_emergency_save(storage, flash)
    IN /\ nvs_power = "on"
       /\ nvs_call.op = "shutdown_flag"
       /\ storage' = r.storage
       /\ flash' = r.flash
       /\ nvs_call' = [op |-> "shutdown"]
       /\ UNCHANGED <<nvs_power, notNvs>>

\* the supply goes away during or after the shutdown
ShutdownPowerLoss ==
    /\ nvs_power = "on"
    /\ nvs_call.op \in {"shutdown_flag", "shutdown"}
    /\ nvs_power' = "off"
    /\ storage' = ZeroStorage
    /\ UNCHANGED <<flash, nvs_call, notNvs>>

ShutdownNext ==
    \/ NvsBoot \/ ShutPeriodicUpdate \/ ShutTripUpdate
    \/ ShutdownFlag \/ ShutdownFlush \/ ShutdownPowerLoss

(***************************************************************************)
(* nvs_storage_save_all section by section in storage_task (core 1),       *)
(* while can_task (core 0) calls nvs_dtc_store and                         *)
(* nvs_lifetime_set_engine_hours; no call takes a lock                     *)
(***************************************************************************)
\* the sections in the order save_all goes through them
SaveSections == <<"trip_a", "trip_b", "lifetime", "settings", "dtc">>

\* begin(), the puts and end() of one section
save_section(st, fl, section) ==
    CASE section = "trip_a" ->
             prefs_write(fl, "trip_a", "trip_a", trip_keys(st.trip_a))
      [] section = "trip_b" ->
             prefs_write(fl, "trip_b", "trip_b", trip_keys(st.trip_b))
      [] section = "lifetime" ->
             prefs_write(fl, "lifetime", "lifetime", st.lifetime)
      [] section = "settings" ->
             prefs_write(fl, "settings", "settings", st.settings)
      [] section = "dtc" ->
             LET f == prefs_write(fl, "dtc", "count", st.dtc_count)
             IN IF st.dtc_count > 0
                THEN prefs_write(f, "dtc", "dtcs", st.dtc_history) ELSE f

\* where save_all stands: before the test of a section's flag, or between
\* the end() of the section and the clearing of its flag
SaveAt(section, written) ==
    [op |-> "save_all", section |-> section, written |-> written]

SaveAfter(section) ==
    IF section = Len(SaveSections) THEN [op |-> "save_all_done"]
    ELSE SaveAt(section + 1, FALSE)

\* storage_task enters nvs_storage_save_all
RaceSaveEnter ==
    /\ nvs_power = "on"
    /\ storage.initialized
    /\ nvs_call.op # "save_all"
    /\ storage.dirty # {}
    /\ nvs_call' = SaveAt(1, FALSE)
    /\ UNCHANGED <<storage, flash, nvs_power, notNvs>>

\* the flag of the section is tested and, if set, the section written
RaceSaveWrite ==
    /\ nvs_call.op = "save_all" /\ ~nvs_call.written
    /\ IF SaveSections[nvs_call.section] \in storage.dirty
       THEN /\ flash' = save_section(storage, flash,
                                     SaveSections[nvs_call.section])
            /\ nvs_call' = SaveAt(nvs_call.section, TRUE)
       ELSE /\ flash' = flash
            /\ nvs_call' = SaveAfter(nvs_call.section)
    /\ UNCHANGED <<storage, nvs_power, notNvs>>

\* the flag of the section just written is cleared
RaceSaveClear ==
    /\ nvs_call.op = "save_all" /\ nvs_call.written
    /\ storage' = [storage EXCEPT
                      !.dirty = @ \ {SaveSections[nvs_call.section]}]
    /\ nvs_call' = SaveAfter(nvs_call.section)
    /\ UNCHANGED <<flash, nvs_power, notNvs>>

\* can_task: a fault of a DM1 that is not in the history yet
RaceDtcStore ==
    \E spn \in {100, 200} :
        /\ nvs_power = "on"
        /\ \A i \in 1 .. storage.dtc_count : storage.dtc_history[i].spn # spn
        /\ storage' = nvs_dtc_store(storage, spn, 1, 0, 1, TRUE)
        /\ UNCHANGED <<flash, nvs_power, nvs_call, notNvs>>

\* can_task: the engine hours of a frame, when they have changed
RaceEngineHours ==
    \E hours \in {1500, 2500} :
        /\ nvs_power = "on"
        /\ storage.lifetime.engine_hours # hours
        /\ storage' = nvs_lifetime_set_engine_hours(storage, hours)
        /\ UNCHANGED <<flash, nvs_power, nvs_call, notNvs>>

RaceNext ==
    \/ NvsBoot \/ RaceSaveEnter \/ RaceSaveWrite \/ RaceSaveClear
    \/ RaceDtcStore \/ RaceEngineHours

(***************************************************************************)
(* Functions without state, called on chosen arguments                     *)
(***************************************************************************)
\* no call yet; each run makes one call
FnNoCall == [fn |-> "none"]

FnInit == fn_call = FnNoCall

\* PGNs below 2^18 of both forms and of every data page, low bytes zero or not
BuildPgns ==
    {0, 255, 61184, 61439, 61440, 61444, 65262, 65535, 65536, 126720,
     127236, 196330, 257810, 262143}
BuildSAs == {0, 1, 255}
BuildPriorities == {0, 3, 6, 7}

\* j1939_build_can_id and the three extractions of what it built
FnBuildCanId ==
    \E pgn \in BuildPgns, source_address \in BuildSAs,
       priority \in BuildPriorities :
        LET id == j1939_build_can_id(pgn, source_address, priority)
        IN /\ fn_call = FnNoCall
           /\ fn_call' = [fn |-> "j1939_build_can_id", pgn |-> pgn,
                          source_address |-> source_address,
                          priority |-> priority, id |-> id,
                          extracted_pgn |-> j1939_extract_pgn(id),
                          extracted_source_address |->
                              j1939_extract_source_address(id),
                          extracted_priority |-> j1939_extract_priority(id)]
           /\ UNCHANGED notFn

\* 4-byte DM1 records: an ordinary fault, "no fault" (with an occurrence
\* count), all bits set, SPN bit 16 alone, FMI alone
Dm1Records ==
    {<<100, 0, 1, 5>>, <<0, 0, 0, 200>>, <<255, 255, 255, 255>>,
     <<0, 0, 32, 128>>, <<0, 0, 3, 0>>}

\* records in a payload, destination capacity
MaxRecords == 3
MaxCapacity == 3

RECURSIVE Flatten(_)
Flatten(seqs) == IF seqs = <<>> THEN <<>> ELSE Head(seqs) \o Flatten(Tail(seqs))

\* the bytes as the array the parser is handed; what lies behind them is 255
Bytes(seq) == [fill |-> 255, cells |-> [k \in 0 .. Len(seq) - 1 |-> seq[k + 1]]]

\* j1939_parse_dm1 on two lamp bytes and up to MaxRecords records, with a
\* length that ends before, at or after the last record
FnParseDm1 ==
    \E n \in 0 .. MaxRecords :
      \E records \in [1 .. n -> Dm1Records], max_dtcs \in 0 .. MaxCapacity,
         cut \in {-5, -1, 0, 3} :
        LET payload == <<4, 16>> \o Flatten(records)
            len == IF Len(payload) + cut < 0 THEN 1 ELSE Len(payload) + cut
        IN /\ fn_call = FnNoCall
           /\ fn_call' = [fn |-> "j1939_parse_dm1", payload |-> payload,
                          len |-> len, max_dtcs |-> max_dtcs,
                          dtcs |-> j1939_parse_dm1(Bytes(payload), len,
                                                   max_dtcs)]
           /\ UNCHANGED notFn

\* parameters with PIDs of fixed length 1, 2 and 4
ComposeParams ==
    {[pid |-> 110, data |-> <<212>>], [pid |-> 84, data |-> <<0>>],
     [pid |-> 190, data |-> <<16, 39>>],
     [pid |-> 245, data |-> <<1, 2, 3, 255>>]}

\* what may follow the last parameter: nothing, or the start of a parameter
ComposeTails == {<<>>, <<110>>, <<190, 7>>, <<245, 1, 2>>}

ComposeMids == {0, 128, 255}

\* parameters chosen; the list is sent once or three times over
MaxParams == 3

RECURSIVE ParamBytes(_)
ParamBytes(params) ==
    IF params = <<>> THEN <<>>
    ELSE <<Head(params).pid>> \o Head(params).data \o ParamBytes(Tail(params))

\* a message composed as the tests compose it (test_parse_message_simple):
\* MID, parameters, checksum from j1708_calculate_checksum; then parsed
FnJ1708Compose ==
    \E n \in 0 .. MaxParams :
      \E chosen \in [1 .. n -> ComposeParams], times \in {1, 3},
         tail \in ComposeTails, mid \in ComposeMids :
        LET params == IF times = 1 THEN chosen ELSE chosen \o chosen \o chosen
            body == <<mid>> \o ParamBytes(params) \o tail
            bytes == Append(body, j1708_calculate_checksum(body))
        IN /\ fn_call = FnNoCall
           /\ Len(bytes) <= J1708_MAX_MESSAGE_LENGTH
           /\ fn_call' = [fn |-> "j1708_parse_message", mid |-> mid,
                          params |-> params, tail |-> tail, bytes |-> bytes,
                          parsed |-> j1708_parse_message(bytes)]
           /\ UNCHANGED notFn

\* PIDs without an entry in pid_lengths: the byte after them is the length
VariablePids == {194, 200}

\* the length byte of the parameter, and the byte its data is filled with
VariableLengths == {0, 1, 8, 9, 12}
VariableFills == {0, 7, 255}

\* what precedes the parameter: nothing, or a road speed
VariableHeads == {<<>>, <<84, 40>>}

\* a message whose last parameter has a PID of variable length: MID, head,
\* PID, length byte, the data in full or one byte short, checksum; parsed
FnJ1708Variable ==
    \E mid \in ComposeMids, head \in VariableHeads, pid \in VariablePids,
       declared \in VariableLengths, fill \in VariableFills, short \in {0, 1} :
        LET present == IF declared >= short THEN declared - short ELSE 0
            body == <<mid>> \o head \o <<pid, declared>>
                        \o [k \in 1 .. present |-> (fill + k) % 256]
            bytes == Append(body, j1708_calculate_checksum(body))
        IN /\ fn_call = FnNoCall
           /\ Len(bytes) <= J1708_MAX_MESSAGE_LENGTH
           /\ fn_call' = [fn |-> "j1708_parse_message", mid |-> mid,
                          head |-> head, pid |-> pid, declared |-> declared,
                          present |-> present, bytes |-> bytes,
                          parsed |-> j1708_parse_message(bytes)]
           /\ UNCHANGED notFn

\* bytes of the sequences summed; their number
ChecksumBytes == {0, 1, 127, 128, 255}
MaxBytes == 3

\* j1708_calculate_checksum, then j1708_validate_checksum on the sequence
\* with the checksum appended
FnJ1708Checksum ==
    \E n \in 0 .. MaxBytes :
      \E data \in [1 .. n -> ChecksumBytes] :
        LET checksum == j1708_calculate_checksum(data)
        IN /\ fn_call = FnNoCall
           /\ fn_call' = [fn |-> "j1708_calculate_checksum", data |-> data,
                          checksum |-> checksum,
                          valid |-> j1708_validate_checksum(
                                        Append(data, checksum))]
           /\ UNCHANGED notFn

(***************************************************************************)
(* Watch list (watch_list_manager.cpp; main.cpp display_task)              *)
(* Thresholds are in thousandths, like the values of the store.            *)
(***************************************************************************)
WATCH_LIST_MAX_ITEMS == 16
ALERT_NONE == 0
ALERT_WARNING == 2
ALERT_CRITICAL == 3
\* stands for FLT_MAX: above every value of the store
FLT_MAX == 2147483647

\* variant: a value on a threshold does not reach it
check_alert_level_strict(item, value) ==
    IF value < item.crit_low \/ value > item.crit_high THEN ALERT_CRITICAL
    ELSE IF value < item.warn_low \/ value > item.warn_high THEN ALERT_WARNING
    ELSE ALERT_NONE

check_alert_level(item, value) ==
    IF value <= item.crit_low \/ value >= item.crit_high THEN ALERT_CRITICAL
    ELSE IF value <= item.warn_low \/ value >= item.warn_high THEN ALERT_WARNING
    ELSE ALERT_NONE

WATCH_LIST_MAX_PAGES == 4

\* watch_list_init; the data manager is the one of the program
watch_list_init == [initialized |-> TRUE, items |-> <<>>, current_page |-> 0]

\* the item watch_list_add writes; the label fields stay as memset left them
new_watch_item(param_id, widget_type, page, position) ==
    [param_id |-> param_id, widget_type |-> widget_type, page |-> page,
     position |-> position, enabled |-> TRUE, decimal_places |-> 1,
     warn_low |-> -FLT_MAX, warn_high |-> FLT_MAX,
     crit_low |-> -FLT_MAX, crit_high |-> FLT_MAX,
     gauge_min |-> 0, gauge_max |-> 100000,
     current_alert |-> ALERT_NONE]

\* variant: the list is not searched for the identity
watch_list_add_unsearched(w, param_id, widget_type, page, position) ==
    IF \/ ~w.initialized
       \/ Len(w.items) >= WATCH_LIST_MAX_ITEMS
       \/ page >= WATCH_LIST_MAX_PAGES
    THEN [wlm |-> w, ret |-> -1]
    ELSE [wlm |-> [w EXCEPT !.items =
                     Append(w.items, new_watch_item(param_id, widget_type,
                                                    page, position))],
          ret |-> Len(w.items)]

\* watch_list_add; ret is the index returned, -1 on failure
watch_list_add(w, param_id, widget_type, page, position) ==
    IF \/ ~w.initialized
       \/ Len(w.items) >= WATCH_LIST_MAX_ITEMS
       \/ page >= WATCH_LIST_MAX_PAGES
       \/ \E i \in 1 .. Len(w.items) : w.items[i].param_id = param_id
    THEN [wlm |-> w, ret |-> -1]
    ELSE [wlm |-> [w EXCEPT !.items =
                     Append(w.items, new_watch_item(param_id, widget_type,
                                                    page, position))],
          ret |-> Len(w.items)]

\* watch_list_remove: the first item of the identity goes, the items after
\* it move down by one
watch_list_remove(w, param_id) ==
    LET hits == {i \in 1 .. Len(w.items) : w.items[i].param_id = param_id}
    IN IF ~w.initialized \/ hits = {} THEN [wlm |-> w, ret |-> FALSE]
       ELSE LET i == CHOOSE h \in hits : \A k \in hits : h <= k
            IN [wlm |-> [w EXCEPT !.items =
                           [j \in 1 .. (Len(w.items) - 1) |->
                               IF j < i THEN w.items[j] ELSE w.items[j + 1]]],
                ret |-> TRUE]

\* watch_list_clear
watch_list_clear(w) == [w EXCEPT !.items = <<>>, !.current_page = 0]

\* watch_list_set_thresholds, through watch_list_get_item: the first item
\* of the identity
watch_list_set_thresholds(w, param_id, warn_low, warn_high, crit_low, crit_high) ==
    LET hits == {i \in 1 .. Len(w.items) : w.items[i].param_id = param_id}
    IN IF ~w.initialized \/ hits = {} THEN w
       ELSE LET i == CHOOSE h \in hits : \A k \in hits : h <= k
            IN [w EXCEPT !.items[i] =
                   [@ EXCEPT !.warn_low = warn_low, !.warn_high = warn_high,
                             !.crit_low = crit_low, !.crit_high = crit_high]]

\* watch_list_set_gauge_range
watch_list_set_gauge_range(w, param_id, min, max) ==
    LET hits == {i \in 1 .. Len(w.items) : w.items[i].param_id = param_id}
    IN IF ~w.initialized \/ hits = {} THEN w
       ELSE LET i == CHOOSE h \in hits : \A k \in hits : h <= k
            IN [w EXCEPT !.items[i] =
                   [@ EXCEPT !.gauge_min = min, !.gauge_max = max]]

\* one entry of watch_list_setup_defaults: the identity, widget, page and
\* position added, then the thresholds, gauge range and decimal places set
\* when the add succeeded (NoSetting where the code sets none)
NoSetting == <<>>
DefaultEntries ==
    <<[id |-> PARAM_ENGINE_SPEED, widget |-> "gauge_circular", page |-> 0,
       position |-> 0, thresholds |-> <<400000, 2200000, 300000, 2500000>>,
       range |-> <<0, 3000000>>, decimals |-> NoSetting],
      [id |-> PARAM_COOLANT_TEMP, widget |-> "gauge_linear", page |-> 0,
       position |-> 1, thresholds |-> <<70000, 100000, 50000, 110000>>,
       range |-> <<40000, 120000>>, decimals |-> NoSetting],
      [id |-> PARAM_OIL_PRESSURE, widget |-> "gauge_linear", page |-> 0,
       position |-> 2, thresholds |-> <<150000, FLT_MAX, 100000, FLT_MAX>>,
       range |-> <<0, 700000>>, decimals |-> NoSetting],
      [id |-> PARAM_BOOST_PRESSURE, widget |-> "gauge_semicircle", page |-> 0,
       position |-> 3, thresholds |-> NoSetting,
       range |-> <<0, 300000>>, decimals |-> NoSetting],
      [id |-> PARAM_VEHICLE_SPEED, widget |-> "gauge_circular", page |-> 1,
       position |-> 0, thresholds |-> NoSetting,
       range |-> <<0, 140000>>, decimals |-> NoSetting],
      [id |-> PARAM_FUEL_LEVEL_1, widget |-> "gauge_linear", page |-> 1,
       position |-> 1, thresholds |-> <<15000, FLT_MAX, 10000, FLT_MAX>>,
       range |-> <<0, 100000>>, decimals |-> NoSetting],
      [id |-> PARAM_FUEL_RATE, widget |-> "numeric", page |-> 1,
       position |-> 2, thresholds |-> NoSetting,
       range |-> NoSetting, decimals |-> NoSetting],
      [id |-> PARAM_MPG_CURRENT, widget |-> "numeric", page |-> 1,
       position |-> 3, thresholds |-> NoSetting,
       range |-> NoSetting, decimals |-> NoSetting],
      [id |-> PARAM_TRANS_OIL_TEMP, widget |-> "gauge_linear", page |-> 2,
       position |-> 0, thresholds |-> <<-FLT_MAX, 100000, -FLT_MAX, 120000>>,
       range |-> <<0, 150000>>, decimals |-> NoSetting],
      [id |-> PARAM_CURRENT_GEAR, widget |-> "numeric", page |-> 2,
       position |-> 1, thresholds |-> NoSetting,
       range |-> NoSetting, decimals |-> <<0>>],
      [id |-> PARAM_ENGINE_HOURS, widget |-> "numeric", page |-> 2,
       position |-> 2, thresholds |-> NoSetting,
       range |-> NoSetting, decimals |-> NoSetting],
      [id |-> PARAM_BATTERY_VOLTAGE, widget |-> "numeric", page |-> 3,
       position |-> 0, thresholds |-> <<12000, 15000, 11500, 15500>>,
       range |-> NoSetting, decimals |-> NoSetting],
      [id |-> PARAM_ACTIVE_DTC_COUNT, widget |-> "indicator", page |-> 3,
       position |-> 1, thresholds |-> <<-FLT_MAX, 500, -FLT_MAX, 500>>,
       range |-> NoSetting, decimals |-> <<0>>],
      [id |-> PARAM_AMBIENT_TEMP, widget |-> "numeric", page |-> 3,
       position |-> 2, thresholds |-> NoSetting,
       range |-> NoSetting, decimals |-> NoSetting]>>

\* the add of one default entry and what follows it under "if (idx >= 0)"
setup_default_entry(w, e) ==
    LET a == watch_list_add(w, e.id, e.widget, e.page, e.position)
        t == IF e.thresholds = NoSetting THEN a.wlm
             ELSE watch_list_set_thresholds(a.wlm, e.id, e.thresholds[1],
                      e.thresholds[2], e.thresholds[3], e.thresholds[4])
        g == IF e.range = NoSetting THEN t
             ELSE watch_list_set_gauge_range(t, e.id, e.range[1], e.range[2])
    IN IF a.ret < 0 THEN a.wlm
       ELSE IF e.decimals = NoSetting THEN g
       ELSE [g EXCEPT !.items[a.ret + 1].decimal_places = e.decimals[1]]

RECURSIVE setup_default_entries(_, _)
setup_default_entries(w, i) ==
    IF i > Len(DefaultEntries) THEN w
    ELSE setup_default_entries(setup_default_entry(w, DefaultEntries[i]), i + 1)

\* watch_list_setup_defaults
watch_list_setup_defaults(w) == setup_default_entries(watch_list_clear(w), 1)

\* variant: an entry without a valid value keeps its alert
watch_list_update_keeping(w, d) ==
    IF ~w.initialized THEN w
    ELSE [w EXCEPT !.items =
            [i \in 1 .. Len(w.items) |->
                LET item == w.items[i]
                    r == data_manager_get(d, item.param_id)
                IN IF ~item.enabled THEN item
                   ELSE [item EXCEPT !.current_alert =
                           IF r.ok THEN check_alert_level(item, r.value)
                           ELSE @]]]

\* watch_list_update; d is the data manager
watch_list_update(w, d) ==
    IF ~w.initialized THEN w
    ELSE [w EXCEPT !.items =
            [i \in 1 .. Len(w.items) |->
                LET item == w.items[i]
                    r == data_manager_get(d, item.param_id)
                IN IF ~item.enabled THEN item
                   ELSE [item EXCEPT !.current_alert =
                           IF r.ok THEN check_alert_level(item, r.value)
                           ELSE ALERT_NONE]]]

\* the identities watched: one inside the parameter array, one past it
WatchIds == {PARAM_COOLANT_TEMP, PARAM_BATTERY_VOLTAGE}

\* thresholds around the values 0, 0.001 and 2.0 the store takes: on the
\* values, between them, and with the bands in the wrong order
ThresholdSets ==
    {[warn_low |-> 1, warn_high |-> 1500, crit_low |-> 0, crit_high |-> 2000],
     [warn_low |-> 0, warn_high |-> 2000, crit_low |-> -1000,
      crit_high |-> FLT_MAX],
     [warn_low |-> -5, warn_high |-> 5000, crit_low |-> 1, crit_high |-> 1]}

WatchInit == wlm = watch_list_init

WatchAdd ==
    \E param_id \in WatchIds :
        /\ wlm' = watch_list_add(wlm, param_id, "numeric", 0, 0).wlm
        /\ wlm' # wlm
        /\ UNCHANGED <<fn_call, notWatch>>

\* the second identity gets the first thresholds only
WatchSetThresholds ==
    \E param_id \in WatchIds, t \in ThresholdSets :
        /\ param_id = PARAM_COOLANT_TEMP \/ t.crit_low = 0
        /\ wlm' = watch_list_set_thresholds(wlm, param_id, t.warn_low,
                                            t.warn_high, t.crit_low,
                                            t.crit_high)
        /\ wlm' # wlm
        /\ UNCHANGED <<fn_call, notWatch>>

\* display_task: watch_list_update; the note keeps what the update has read
\* from the store and the list it has left
WatchUpdate ==
    /\ wlm.items # <<>>
    /\ wlm' = watch_list_update(wlm, dm)
    /\ fn_call' = [fn |-> "watch_list_update",
                   read |-> [i \in 1 .. Len(wlm.items) |->
                               data_manager_get(dm, wlm.items[i].param_id)],
                   items |-> wlm'.items,
                   before |-> wlm.items,
                   again |-> fn_call.fn = "watch_list_update"
                             /\ ~fn_call.again]
    /\ UNCHANGED notWatch

\* a decoder stores a value of a watched identity
WatchStore ==
    \E param_id \in WatchIds :
      \E value \in DmValuesOf(param_id) :
        /\ dm.total_updates < MaxUpdates
        /\ dm' = data_manager_update(dm, param_id, value, SOURCE_J1939, 0).dm
        /\ UNCHANGED <<dm_call, dm_updated, wlm, fn_call, tpVars, ccVars,
                       jVars, nvsVars, canVars, dtc_env>>

\* the value of the first identity is invalidated
WatchInvalidate ==
    /\ dm' = data_manager_invalidate(dm, PARAM_COOLANT_TEMP)
    /\ dm' # dm
    /\ UNCHANGED <<dm_call, dm_updated, wlm, fn_call, tpVars, ccVars, jVars,
                   nvsVars, canVars, dtc_env>>

WatchNext ==
    \/ WatchAdd \/ WatchSetThresholds \/ WatchUpdate
    \/ WatchStore \/ WatchInvalidate

(***************************************************************************)
(* Watch list: direct calls of watch_list_add, watch_list_remove,          *)
(* watch_list_clear and watch_list_setup_defaults                          *)
(***************************************************************************)
\* identities added: one of the defaults and three that are not, so that
\* with the 14 defaults the list fills up
ListAddIds ==
    {PARAM_ENGINE_SPEED, PARAM_ENGINE_LOAD, PARAM_THROTTLE_POSITION, PARAM_NONE}

\* pages: the first, the last, and the first that is out of range
ListPages == {0, WATCH_LIST_MAX_PAGES - 1, WATCH_LIST_MAX_PAGES}

\* identities removed: the first and the last default, and one that is
\* there only when it was added
ListRemoveIds == {PARAM_ENGINE_SPEED, PARAM_AMBIENT_TEMP, PARAM_THROTTLE_POSITION}

ListAdd ==
    \E param_id \in ListAddIds, page \in ListPages :
        LET r == watch_list_add(wlm, param_id, "numeric", page, 0)
        IN /\ wlm' = r.wlm
           /\ fn_call' = [fn |-> "watch_list_add", param_id |-> param_id,
                          page |-> page, ret |-> r.ret]
           /\ UNCHANGED notWatch

ListRemove ==
    \E param_id \in ListRemoveIds :
        LET r == watch_list_remove(wlm, param_id)
        IN /\ wlm' = r.wlm
           /\ fn_call' = [fn |-> "watch_list_remove", param_id |-> param_id,
                          ret |-> r.ret]
           /\ UNCHANGED notWatch

ListClear ==
    /\ wlm' = watch_list_clear(wlm)
    /\ fn_call' = [fn |-> "watch_list_clear"]
    /\ UNCHANGED notWatch

ListSetupDefaults ==
    /\ wlm' = watch_list_setup_defaults(wlm)
    /\ fn_call' = [fn |-> "watch_list_setup_defaults"]
    /\ UNCHANGED notWatch

ListNext == ListAdd \/ ListRemove \/ ListClear \/ ListSetupDefaults

(***************************************************************************)
(* Specifications                                                          *)
(***************************************************************************)
Init == TpInit /\ DmInit /\ CcInit /\ JInit /\ NvsInit /\ CanInit /\ DtcInit /\ FnInit /\ WatchInit

FnNext == FnBuildCanId \/ FnParseDm1 \/ FnJ1708Compose \/ FnJ1708Checksum

Next ==
    \/ TpNext \/ DmNext \/ CcNext \/ JNext \/ NvsNext \/ CanNext \/ DtcNext
    \/ SaveNext \/ RoundTripNext \/ FnNext \/ WatchNext \/ ListNext
    \/ ShutdownNext \/ RaceNext \/ FramerNext \/ GearNext \/ FnJ1708Variable
    \/ DirectNext \/ FoldNext \/ ResetNext \/ SimFrame

Spec == Init /\ [][Next]_vars

SpecTP == Init /\ [][TpNext]_vars

SpecDM == Init /\ [][DmNext]_vars

SpecConc == Init /\ [][CcNext]_vars

SpecJ1708 == Init /\ [][JNext]_vars

SpecFramer == Init /\ [][FramerNext]_vars

SpecDirect == Init /\ [][DirectNext]_vars

SpecNVS == Init /\ [][NvsNext]_vars

SpecCAN == Init /\ [][CanNext]_vars

SpecGear == Init /\ [][GearNext]_vars

SpecSim == Init /\ [][SimFrame]_vars

SpecDTC == Init /\ [][DtcNext]_vars

SpecSave == Init /\ [][SaveNext]_vars

SpecFold == Init /\ [][FoldNext]_vars

SpecReset == Init /\ [][ResetNext]_vars

SpecRoundTrip == Init /\ [][RoundTripNext]_vars

SpecId == Init /\ [][FnBuildCanId]_vars

SpecDm1 == Init /\ [][FnParseDm1]_vars

SpecCompose == Init /\ [][FnJ1708Compose]_vars

SpecVariable == Init /\ [][FnJ1708Variable]_vars

SpecChecksum == Init /\ [][FnJ1708Checksum]_vars

SpecWatch == Init /\ [][WatchNext]_vars

SpecList == Init /\ [][ListNext]_vars

SpecShutdown == Init /\ [][ShutdownNext]_vars

SpecRace == Init /\ [][RaceNext]_vars

(***************************************************************************)
(* Properties of the transport protocol                                    *)
(***************************************************************************)
\* two byte arrays agree on their first n cells
BufEqUpTo(a, b, n) ==
    /\ a.fill = b.fill
    /\ \A k \in (DOMAIN a.cells) \cup (DOMAIN b.cells) :
           k < n => BufRead(a, k) = BufRead(b, k)

IsDt(call) == call.fn = "handle_frame" /\ call.msg.pgn = PGN_TP_DT

C1_Drained(call, sc) ==
    /\ call.len = sc.S
    /\ call.pgn_written /\ call.pgn = sc.pgn
    /\ call.data.over = 0
    /\ \A k \in 0 .. (sc.S - 1) : BufRead(call.data, k) = sc.bytes[k + 1]

C1_Holds(needSlot) ==
    LET sa == tp_call'.msg.source_address
        before == tp_script[sa]
        after == tp_script'[sa]
    IN /\ (IsDt(tp_call') /\ after.ok /\ (needSlot => after.slot))
            => (tp_call'.ret = (after.n = after.P))
       /\ (/\ tp_call'.fn = "get_data"
           /\ before.ok /\ before.n = before.P /\ before.gets = 0
           /\ tp_call'.max_len >= before.S
           /\ (needSlot => before.slot))
            => C1_Drained(tp_call', before)

\* C1 as stated: after a well formed announce (1 <= S <= 1785, packets =
\* ceil(S/7)) and data frames 1..packets in order, each within 750 ms of the
\* previous frame, j1939_tp_handle_frame returns true exactly on the last
\* data frame and the next j1939_tp_get_data with room for S bytes returns
\* S, the announced PGN and the payloads truncated to S, whatever other
\* source addresses send in between
C1_AsStated == [][C1_Holds(FALSE)]_vars

\* C1, amended: the same, provided that the announce found a session of its
\* source address or an idle slot
C1_Reassembly == [][C1_Holds(TRUE)]_vars

\* sender 0 is drained of its 8 bytes, its last frame 750 ms after the one
\* before, while the session of sender 1 is half received
C1_Witness ==
    /\ tp_call.fn = "get_data" /\ tp_call.msg.source_address = 0
    /\ tp_call.len = 8 /\ tp_call.max_len >= 8
    /\ tp_script[0].ok /\ tp_script[0].gets = 1 /\ tp_script[0].t = 750
    /\ StateOf(ctx, 1) = TP_STATE_RECEIVING
    /\ ctx.tp_sessions[find_tp_session(ctx, 1)].received_packets = 1

C8_Step ==
    LET msg == tp_call'.msg
        s == find_tp_session(ctx, msg.source_address)
        session == ctx.tp_sessions[s]
        after == ctx'.tp_sessions[s]
        bad == \/ msg.data[1] # session.received_packets + 1
               \/ msg.timestamp_ms - session.last_packet_time_ms
                     > J1939_TP_TIMEOUT_MS
    IN (IsDt(tp_call') /\ s # NoSession /\ session.state = TP_STATE_RECEIVING)
        => /\ (after.state = TP_STATE_ERROR) <=> bad
           /\ bad => /\ after.buffer = session.buffer
                     /\ after.received_packets = session.received_packets
                     /\ tp_call'.ret = FALSE

\* C8: a data frame for a receiving session moves it to error exactly when
\* its sequence number is not received_packets + 1 or it comes more than
\* 750 ms after the previous frame of the session; then the buffer and the
\* packet count stay as they were and j1939_tp_handle_frame returns false
C8_ErrorIff == [][C8_Step]_vars

\* a data frame found a receiving session that had one packet and left it in
\* error, 751 ms after that packet
C8_Witness ==
    /\ IsDt(tp_call) /\ tp_call.was = TP_STATE_RECEIVING
    /\ StateOf(ctx, tp_call.msg.source_address) = TP_STATE_ERROR
    /\ LET session == ctx.tp_sessions[find_tp_session(ctx, tp_call.msg.source_address)]
       IN /\ session.received_packets = 1
          /\ tp_call.msg.data[1] = 2
          /\ tp_call.msg.timestamp_ms - session.last_packet_time_ms = 751

C9_Step ==
    \A i \in Slots :
        LET session == ctx.tp_sessions[i]
            after == ctx'.tp_sessions[i]
            msg == tp_call'.msg
        IN /\ (session.state = TP_STATE_IDLE /\ after.state # TP_STATE_IDLE)
                => /\ tp_call'.fn = "handle_frame"
                   /\ msg.pgn = PGN_TP_CM /\ msg.data[1] = TP_CM_BAM
           /\ (session.state = TP_STATE_RECEIVING
                  /\ after.state # TP_STATE_RECEIVING)
                => /\ IsDt(tp_call')
                   /\ msg.source_address = session.source_address
                   /\ \/ /\ after.state = TP_STATE_COMPLETE
                         /\ after.received_packets = after.total_packets
                      \/ /\ after.state = TP_STATE_ERROR
                         /\ msg.data[1] # session.received_packets + 1
                      \/ /\ after.state = TP_STATE_ERROR
                         /\ msg.timestamp_ms - session.last_packet_time_ms
                               > J1939_TP_TIMEOUT_MS

\* C9 as stated: a slot leaves idle only while a TP.CM frame with control
\* byte 32 is handled; a session leaves receiving only while a data frame
\* from its source address is handled that makes received == expected
\* packets (complete), is out of order (error) or is late (error)
C9_AsStated == [][C9_Step]_vars

C10_Step ==
    LET sa == tp_call'.msg.source_address
        s == find_tp_session(ctx, sa)
        session == ctx.tp_sessions[s]
        copy_len == Min(session.total_size, tp_call'.max_len)
    IN tp_call'.fn = "get_data" =>
         IF s # NoSession /\ session.state = TP_STATE_COMPLETE
         THEN /\ tp_call'.len = copy_len
              /\ BufEqUpTo(tp_call'.data, session.buffer,
                           Min(copy_len, J1939_TP_MAX_LENGTH))
              /\ tp_call'.pgn_written /\ tp_call'.pgn = session.target_pgn
              /\ ctx'.tp_sessions[s].state = TP_STATE_IDLE
              /\ \A i \in Slots \ {s} : ctx'.tp_sessions[i] = ctx.tp_sessions[i]
              /\ j1939_tp_get_data(ctx', sa, tp_call'.max_len).ret = 0
         ELSE /\ tp_call'.len = 0
              /\ ~tp_call'.pgn_written
              /\ ctx' = ctx

\* C10: j1939_tp_get_data on a complete session returns min(total_size,
\* max_len), delivers that many bytes from the start of the buffer and the
\* target PGN, and sets the slot idle, so that a second call returns 0; on
\* anything else it returns 0 and changes no session
C10_GetData == [][C10_Step]_vars

\* a complete session of 8 bytes was drained into a 4-byte buffer
C10_Witness ==
    /\ tp_call.fn = "get_data" /\ tp_call.was = TP_STATE_COMPLETE
    /\ tp_call.len = 4 /\ tp_call.max_len = 4
    /\ StateOf(ctx, tp_call.msg.source_address) = "none"

(***************************************************************************)
(* Properties of the parameter store                                       *)
(***************************************************************************)
StoreIds == InsideIds \cup BeyondIds

\* the step is an update the range test lets through
IsAcceptedUpdate(call) ==
    call.fn = "update" /\ call.param_id \in StoreIds

C4_Step ==
    LET call == dm_call'
        after == param_at(dm', call.param_id)
    IN (/\ IsAcceptedUpdate(call)
        /\ call.before.update_count > 0
        /\ call.timestamp_ms < call.before.timestamp_ms)
        => /\ after.value = call.before.value
           /\ after.timestamp_ms = call.before.timestamp_ms
           /\ after.source = call.before.source

\* C4 as stated: an update whose timestamp is older than the one recorded
\* for its identity is discarded: value, timestamp and source of the record
\* stay as they were
C4_AsStated == [][C4_Step]_vars

C6_Update(needInside) ==
    LET call == dm_call'
        after == param_at(dm', call.param_id)
    IN (IsAcceptedUpdate(call) /\ (needInside => call.param_id \in InsideIds))
        => /\ after.is_valid
           /\ after.value = call.value
           /\ after.timestamp_ms = call.timestamp_ms
           /\ after.source = call.source
           /\ after.prev_value = call.before.value
           /\ after.update_count = call.before.update_count + 1
           /\ data_manager_get(dm', call.param_id) =
                  [ok |-> TRUE, value |-> call.value]

C6_Monotonic(ids) ==
    \A id \in ids :
        /\ param_at(dm', id).update_count >= param_at(dm, id).update_count
        /\ param_at(dm', id).timestamp_ms < param_at(dm, id).timestamp_ms
             => /\ IsAcceptedUpdate(dm_call') /\ dm_call'.param_id = id
                /\ dm_call'.timestamp_ms < param_at(dm, id).timestamp_ms

\* C6 as stated: every accepted update leaves the record valid with the
\* value, timestamp and source passed (get returns the value), prev_value
\* the value held before and update_count one higher; update_count never
\* decreases; the recorded timestamp decreases only when update is passed
\* a timestamp below the recorded one
C6_AsStated == [][C6_Update(FALSE) /\ C6_Monotonic(StoreIds)]_vars

\* C6 for the identities below DATA_MAX_PARAMETERS
C6_InsideArray == [][C6_Update(TRUE) /\ C6_Monotonic(InsideIds)]_vars

\* the observer calls the rule asks for: every registered observer once, in
\* registration order, with (identity, new value, value held before)
C11_Expected(call) ==
    IF ~call.before.is_valid \/ Abs(call.value - call.before.value) > 1
    THEN [i \in 1 .. dm.callback_count |->
             <<dm.callbacks[i], call.param_id, call.value, call.before.value>>]
    ELSE <<>>

C11_Step(ids) ==
    LET call == dm_call'
    IN (IsAcceptedUpdate(call) /\ call.param_id \in ids)
        => /\ call.notified = C11_Expected(call)
           /\ call.param_id \notin dm_updated
                => Len(call.notified) = dm.callback_count

\* C11 as stated: an accepted update calls every registered observer exactly
\* once, in registration order, with (identity, new value, value held
\* before) if the record was not valid or the value moved by more than
\* 0.001, and calls none otherwise; the first update of an identity and the
\* first update after an invalidate always notify
C11_AsStated == [][C11_Step(StoreIds)]_vars

\* C11 for the identities below DATA_MAX_PARAMETERS
C11_InsideArray == [][C11_Step(InsideIds)]_vars

\* two observers have been called in order by the first update after an
\* invalidate, the value being the one held before
C11_InsideSeen ==
    /\ dm_call.fn = "update"
    /\ dm_call.param_id = PARAM_COOLANT_TEMP
    /\ dm_call.before.update_count > 0
    /\ ~dm_call.before.is_valid
    /\ dm_call.value = dm_call.before.value
    /\ Len(dm_call.notified) = 2

(***************************************************************************)
(* Properties of the concurrent tasks                                      *)
(***************************************************************************)
\* the reader has a result made of the value and timestamp of one update
C2_ReaderCoherent ==
    (cc_pc[TASK_DISPLAY] = "returned" /\ cc_loc[TASK_DISPLAY].ok)
        => cc_loc[TASK_DISPLAY].out_value = cc_loc[TASK_DISPLAY].out_ts

\* with every update returned, the record is the one the last of them to
\* run alone would have left
C2_RecordCoherent ==
    (\A t \in Writers : cc_pc[t] = "idle") /\ cc_started # <<>>
        => /\ cc_rec.is_valid
           /\ cc_rec.value \in 1 .. Len(cc_started)
           /\ cc_rec.timestamp_ms = cc_rec.value
           /\ cc_rec.source = cc_started[cc_rec.value]
           /\ cc_rec.update_count = Len(cc_started)

\* C2 as stated: update and get_with_timestamp are atomic with respect to
\* each other: a reader never sees value and timestamp of different
\* updates, and concurrent updates leave the record one of them alone
\* would have written
C2_AsStated == C2_ReaderCoherent /\ C2_RecordCoherent

(***************************************************************************)
(* Properties of the J1708 receiver                                        *)
(***************************************************************************)
\* two valid messages went over the bus, the second after at least
\* minGap ms of silence, and the first byte of a third message has come
\* after more than the timeout, so that the framer has seen both end
C3_TwoValidSent(minGap) ==
    /\ Len(j_line.sent) = 3
    /\ j1708_validate_checksum(j_line.sent[1].msg)
    /\ j1708_validate_checksum(j_line.sent[2].msg)
    /\ j_line.sent[2].gap >= minGap
    /\ j_line.sent[3].gap > J1708_INTER_BYTE_TIMEOUT_MS

C3_BothDelivered ==
    /\ Len(j_delivered) >= 2
    /\ j_delivered[1] = j1708_parse_message(j_line.sent[1].msg).msg
    /\ j_delivered[2] = j1708_parse_message(j_line.sent[2].msg).msg

\* C3 as stated: two valid messages fed byte by byte, separated by at
\* least 10 ms of silence, to a consumer that calls j1708_get_message
\* whenever j1708_receive_byte returns true, are both delivered, each with
\* its own MID and parameter list
C3_AsStated ==
    C3_TwoValidSent(J1708_INTER_BYTE_TIMEOUT_MS) => C3_BothDelivered

\* the same with more than 10 ms of silence between the two messages
C3_LongerSilence ==
    C3_TwoValidSent(J1708_INTER_BYTE_TIMEOUT_MS + 1) => C3_BothDelivered

\* the first of the two is delivered when the silence is longer than 10 ms
C3_FirstDelivered ==
    C3_TwoValidSent(J1708_INTER_BYTE_TIMEOUT_MS + 1)
        => /\ Len(j_delivered) >= 1
           /\ j_delivered[1] = j1708_parse_message(j_line.sent[1].msg).msg


(***************************************************************************)
(* Persistent storage: properties                                          *)
(***************************************************************************)
\* the step is a boot
C5_Boot == nvs_power = "off" /\ nvs_power' = "on"

\* the counters and the flag the boot leaves, in RAM and on flash
C5_After(boots, crashes) ==
    /\ storage'.system.boot_count = boots
    /\ storage'.system.crash_count = crashes
    /\ flash'.boot_count = boots
    /\ flash'.crash_count = crashes
    /\ {"boot_count", "crash_count", "clean_shut"} \subseteq flash'.keys
    /\ flash'.clean_shut = FALSE

\* C5: across a power cycle, a boot that follows a completed
\* nvs_system_shutdown loads clean_shutdown = true and leaves crash_count
\* unchanged; a boot that follows a power-off without nvs_system_shutdown
\* loads clean_shutdown = false and raises crash_count by exactly one; either
\* way boot_count rises by one and clean_shutdown is false on flash once the
\* boot has finished
C5_PowerCycle ==
    [][C5_Boot /\ flash.keys \cap SystemKeys # {} =>
        IF nvs_call.op = "shutdown"
        THEN /\ nvs_call'.loaded_clean = TRUE
             /\ C5_After(flash.boot_count + 1, flash.crash_count)
        ELSE /\ nvs_call'.loaded_clean = FALSE
             /\ C5_After(flash.boot_count + 1, flash.crash_count + 1)]_vars

\* a boot after a completed shutdown, on a board that has also been through
\* a power cycle without one
C5_Witness ==
    /\ nvs_call.op = "init"
    /\ nvs_call.after_shutdown
    /\ nvs_call.loaded_clean
    /\ flash.crash_count >= 1
    /\ flash.boot_count >= 3


\* C23 as stated: between boot (nvs_storage_init) and the next shutdown,
\* nvs_system_was_clean_shutdown returns true if and only if the run before
\* ended with nvs_system_shutdown
C23_AsStated ==
    nvs_call.op = "init"
        => (nvs_system_was_clean_shutdown(storage) <=> nvs_call.after_shutdown)

\* what the code does: after boot the call returns false whatever the boot
\* has loaded
C23_AlwaysFalse ==
    nvs_call.op = "init" => ~nvs_system_was_clean_shutdown(storage)

\* a boot that loaded clean_shutdown = true after a completed shutdown
C23_CleanBoot ==
    /\ nvs_call.op = "init"
    /\ nvs_call.after_shutdown
    /\ nvs_call.loaded_clean
    /\ ~nvs_system_was_clean_shutdown(storage)

(***************************************************************************)
(* CAN receive pipeline: properties                                        *)
(***************************************************************************)
\* the step handles a frame that j1939_parse_frame accepted
C7_Frame ==
    g_can_frames_received' = g_can_frames_received + 1 /\ can_call'.parsed

\* the raw signal of sig in the 8 data bytes matches its validity sentinel:
\* 0xFE or 0xFF for one byte, at least 0xFE00 for two, 0xFFFFFFFF for four
C7_Sentinel(sig, data) ==
    IF sig.width = 1 THEN data[sig.at] \in {254, 255}
    ELSE IF sig.width = 2
    THEN data[sig.at] + 256 * data[sig.at + 1] >= 65024
    ELSE \A i \in sig.at .. sig.at + 3 : data[i] = 255

\* C7: a frame of a decoded PGN whose raw signal matches its validity
\* sentinel never updates the parameter store: the record of the identity
\* that belongs to the PGN is unchanged and no observer is called
C7_SentinelIgnored ==
    [][\A sig \in CanSignals :
          (/\ C7_Frame
           /\ can_call'.msg.pgn = sig.pgn
           /\ C7_Sentinel(sig, can_call'.msg.data))
          => /\ param_at(dm', sig.id) = param_at(dm, sig.id)
             /\ dm'.total_updates = dm.total_updates
             /\ can_call'.notified = <<>>]_vars

\* a sentinel frame has arrived for an identity that holds a value from an
\* earlier frame, while an observer is registered
C7_SentinelSeen(sig) ==
    /\ can_call.parsed
    /\ can_call.msg.pgn = sig.pgn
    /\ C7_Sentinel(sig, can_call.msg.data)
    /\ param_at(dm, sig.id).is_valid
    /\ dm.callback_count >= 1

C7_Witness ==
    C7_SentinelSeen(CHOOSE sig \in CanSignals : sig.pgn = 61444)


(***************************************************************************)
(* Fault history: properties                                               *)
(***************************************************************************)
C12_SameTriple(e, f) ==
    e.spn = f.spn /\ e.fmi = f.fmi /\ e.source_address = f.source_address

\* at most 20 entries, no two with the same (spn, fmi, source address)
C12_Bounded(st) ==
    /\ st.dtc_count <= 20
    /\ Len(st.dtc_history) = st.dtc_count
    /\ \A i, k \in 1 .. st.dtc_count :
           C12_SameTriple(st.dtc_history[i], st.dtc_history[k]) => i = k

\* what a store call does to the history
C12_Store ==
    LET call == dtc_env'.call
        old == storage.dtc_history
        new == storage'.dtc_history
        n == storage.dtc_count
        hits == {i \in 1 .. n : C12_SameTriple(old[i], call)}
    IN (dtc_env'.clock # dtc_env.clock /\ call.fn = "store") =>
        IF hits # {}
        THEN /\ storage'.dtc_count = n
             /\ \A i \in 1 .. n :
                   IF i \in hits
                   THEN /\ new[i].last_seen = call.timestamp
                        /\ new[i].occurrence_count = old[i].occurrence_count + 1
                        /\ C12_SameTriple(new[i], old[i])
                   ELSE new[i] = old[i]
        ELSE IF n < 20
        THEN /\ storage'.dtc_count = n + 1
             /\ \A i \in 1 .. n : new[i] = old[i]
             /\ C12_SameTriple(new[n + 1], call)
             /\ new[n + 1].last_seen = call.timestamp
             /\ new[n + 1].occurrence_count = 1
        ELSE /\ storage'.dtc_count = n
             /\ \E i \in 1 .. n :
                   /\ \A k \in 1 .. n : old[i].last_seen <= old[k].last_seen
                   /\ C12_SameTriple(new[i], call)
                   /\ new[i].last_seen = call.timestamp
                   /\ new[i].occurrence_count = 1
                   /\ \A k \in (1 .. n) \ {i} : new[k] = old[k]

\* C12: after any sequence of nvs_dtc_store, nvs_dtc_clear_active and
\* nvs_dtc_clear_all calls from an empty history there are at most 20
\* entries and no two share (spn, fmi, source address); a store of an
\* existing triple sets its last_seen and raises its occurrence_count by
\* one, the count of entries staying; a store of a new triple appends while
\* fewer than 20 entries exist and otherwise replaces an entry whose
\* last_seen is minimal
C12_History == [][C12_Bounded(storage') /\ C12_Store]_vars

\* a full history has replaced an entry other than its first one: the first
\* had been stored again and so was not the oldest
C12_Witness ==
    /\ storage.dtc_count = 20
    /\ dtc_env.call.fn = "store"
    /\ dtc_env.raised >= 21
    /\ dtc_env.restores >= 1
    /\ storage.dtc_history[1].occurrence_count = 2
    /\ \E i \in 2 .. 20 : C12_SameTriple(storage.dtc_history[i], dtc_env.call)


(***************************************************************************)
(* Flush: properties                                                       *)
(***************************************************************************)
\* the namespace of a section holds what the context holds
C13_Written(section, st, fl) ==
    CASE section = "trip_a" ->
             "trip_a" \in fl.keys /\ fl.trip_a = trip_keys(st.trip_a)
      [] section = "trip_b" ->
             "trip_b" \in fl.keys /\ fl.trip_b = trip_keys(st.trip_b)
      [] section = "lifetime" ->
             "lifetime" \in fl.keys /\ fl.lifetime = st.lifetime
      [] section = "settings" ->
             "settings" \in fl.keys /\ fl.settings = st.settings
      [] section = "dtc" -> "count" \in fl.keys /\ fl.count = st.dtc_count

C13_Step ==
    LET call == nvs_call'
        now == call.args[1]
        distance == storage.distance_accumulator + call.args[2]
        fuel == storage.fuel_accumulator + call.args[3]
        last == storage.last_save_time_ms
        trigger == \/ IF now >= last THEN now - last >= 5 * 60 * 1000 ELSE TRUE
                   \/ distance >= 1000
    IN (nvs_call' # nvs_call /\ call.op = "periodic_update") =>
        IF trigger
        THEN /\ storage'.trip_a =
                    [storage.trip_a EXCEPT !.distance_km = @ + distance,
                                           !.fuel_used_liters = @ + fuel]
             /\ storage'.trip_b =
                    [storage.trip_b EXCEPT !.distance_km = @ + distance,
                                           !.fuel_used_liters = @ + fuel]
             /\ storage'.lifetime =
                    [storage.lifetime EXCEPT !.total_distance_km = @ + distance,
                                             !.total_fuel_liters = @ + fuel]
             /\ storage'.distance_accumulator = 0
             /\ storage'.fuel_accumulator = 0
             /\ storage'.last_save_time_ms = now
             /\ \A section \in (storage.dirty
                                \cup {"trip_a", "trip_b", "lifetime"})
                               \ flash.broken :
                    C13_Written(section, storage', flash')
        ELSE /\ storage'.distance_accumulator = distance
             /\ storage'.fuel_accumulator = fuel
             /\ storage'.trip_a = storage.trip_a
             /\ storage'.trip_b = storage.trip_b
             /\ storage'.lifetime = storage.lifetime
             /\ storage'.last_save_time_ms = last
             /\ flash' = flash

C13_Accumulating ==
    /\ nvs_call.op = "periodic_update"
    /\ storage.distance_accumulator = 600
    /\ storage.trip_a.distance_km = 0

\* a save step met a dirty section whose namespace does not open
C14_Failing == (storage.dirty \cup IF nvs_call'.op = "emergency_save"
                                   THEN {"trip_a", "trip_b", "lifetime"}
                                   ELSE {}) \cap flash.broken

\* C14: when opening a namespace or writing a key fails during a save,
\* nvs_storage_save_all (and nvs_storage_emergency_save through it) returns
\* false and the dirty flag of every namespace not written stays set
C14_AsStated ==
    [][(/\ nvs_call' # nvs_call
        /\ nvs_call'.op \in {"save_all", "emergency_save"}
        /\ C14_Failing # {})
       => (~nvs_call'.ok /\ C14_Failing \subseteq storage'.dirty)]_vars

\* what the code does instead: the save returns true with every flag clear
C14_Swallowed ==
    [][(/\ nvs_call' # nvs_call
        /\ nvs_call'.op \in {"save_all", "emergency_save"})
       => (nvs_call'.ok /\ storage'.dirty = {})]_vars

\* a save has returned true and left no flag set while the namespace of
\* trip A, which it could not open, still lacks the trip
C14_Lost ==
    /\ nvs_call.op \in {"save_all", "emergency_save"}
    /\ nvs_call.ok
    /\ "trip_a" \in flash.broken
    /\ storage.dirty = {}
    /\ storage.trip_a.distance_km > 0
    /\ "trip_a" \notin flash.keys

(***************************************************************************)
(* Round trip through flash: properties                                    *)
(***************************************************************************)
\* the context nvs_storage_load_all fills from the flash a save has left
C19_Loaded == nvs_storage_load_all(DefaultStorage, flash', TRUE)

C19_AllDirtySave ==
    /\ nvs_call' # nvs_call
    /\ nvs_call'.op = "save_all"
    /\ storage.dirty = NvsSections
    /\ flash.broken = {}

\* C19: nvs_storage_save_all with every namespace dirty followed by
\* nvs_storage_load_all into a freshly initialised context reproduces every
\* field of trip A and trip B (average economy included), of the lifetime
\* record, of the settings and of the DTC history
C19_AsStated ==
    [][C19_AllDirtySave =>
        /\ C19_Loaded.trip_a = storage.trip_a
        /\ C19_Loaded.trip_b = storage.trip_b
        /\ C19_Loaded.lifetime = storage.lifetime
        /\ C19_Loaded.settings = storage.settings
        /\ C19_Loaded.dtc_count = storage.dtc_count
        /\ C19_Loaded.dtc_history = storage.dtc_history]_vars

\* all but avg_fuel_economy, which has no key, come back
C19_SavedFields ==
    [][C19_AllDirtySave =>
        /\ C19_Loaded.trip_a = [storage.trip_a EXCEPT !.avg_fuel_economy = 0]
        /\ C19_Loaded.trip_b = [storage.trip_b EXCEPT !.avg_fuel_economy = 0]
        /\ C19_Loaded.lifetime = storage.lifetime
        /\ C19_Loaded.settings = storage.settings
        /\ C19_Loaded.dtc_count = storage.dtc_count
        /\ C19_Loaded.dtc_history = storage.dtc_history]_vars


(***************************************************************************)
(* CAN identifiers: properties                                             *)
(***************************************************************************)
\* C15: for pgn < 2^18 and priority < 8 the identifier built by
\* j1939_build_can_id gives back the source address and the priority, and
\* the PGN itself when its PF byte is >= 240, the PGN with its low byte
\* cleared when the PF byte is < 240
C15_RoundTrip ==
    (/\ fn_call.fn = "j1939_build_can_id"
     /\ fn_call.pgn < 262144
     /\ fn_call.priority < 8)
    => /\ fn_call.extracted_source_address = fn_call.source_address
       /\ fn_call.extracted_priority = fn_call.priority
       /\ fn_call.extracted_pgn =
              IF (fn_call.pgn \div 256) % 256 >= 240 THEN fn_call.pgn
              ELSE fn_call.pgn - (fn_call.pgn % 256)

\* a PDU1 PGN of data page 3 with a low byte, from address 255 at priority 7
C15_Witness ==
    /\ fn_call.fn = "j1939_build_can_id"
    /\ fn_call.pgn = 257810
    /\ fn_call.source_address = 255
    /\ fn_call.priority = 7
    /\ fn_call.extracted_pgn = 257792


(***************************************************************************)
(* DM1 payloads: properties                                                *)
(***************************************************************************)
\* byte k (from 0) of the payload handed over; behind the payload lies 255
C16_Byte(k) ==
    IF k < Len(fn_call.payload) THEN fn_call.payload[k + 1] ELSE 255

\* the complete 4-byte record number r (from 1) behind the two lamp bytes
C16_Record(r) ==
    LET b0 == C16_Byte(4 * r - 2)
        b1 == C16_Byte(4 * r - 1)
        b2 == C16_Byte(4 * r)
        b3 == C16_Byte(4 * r + 1)
    IN [spn |-> b0 + 256 * b1 + 2048 * (b2 - (b2 % 32)), fmi |-> b2 % 32,
        oc |-> b3 % 128, is_active |-> TRUE]

C16_Emitted(rec) == ~(rec.spn = 0 /\ rec.fmi = 0)

\* the records of the payload that are to be emitted, in payload order
C16_Expected ==
    LET complete == (fn_call.len - 2) \div 4
        wanted == SelectSeq([r \in 1 .. complete |-> C16_Record(r)],
                            C16_Emitted)
    IN SubSeq(wanted, 1, Min(fn_call.max_dtcs, Len(wanted)))

\* C16: for a DM1 payload of length L >= 2 and capacity C, j1939_parse_dm1
\* returns the first min(C, n) of the n complete 4-byte records from offset
\* 2 that are not (spn = 0 and fmi = 0), in payload order, each with
\* spn = b0 | b1 << 8 | (b2 & 0xE0) << 11, fmi = b2 & 0x1F, oc = b3 & 0x7F
C16_ParseDm1 ==
    (fn_call.fn = "j1939_parse_dm1" /\ fn_call.len >= 2)
    => /\ fn_call.dtcs = C16_Expected
       /\ Len(fn_call.dtcs) <= fn_call.max_dtcs

\* "no fault", a fault, a second fault, capacity 1: the one fault comes out
C16_Witness ==
    /\ fn_call.fn = "j1939_parse_dm1"
    /\ fn_call.payload = <<4, 16, 0, 0, 0, 200, 100, 0, 1, 5, 0, 0, 32, 128>>
    /\ fn_call.len = 14
    /\ fn_call.max_dtcs = 1
    /\ fn_call.dtcs = <<[spn |-> 100, fmi |-> 1, oc |-> 5, is_active |-> TRUE]>>

\* a length that ends inside the last record leaves that record out
C16_Partial ==
    /\ fn_call.fn = "j1939_parse_dm1"
    /\ fn_call.len = 9
    /\ Len(fn_call.payload) = 10
    /\ fn_call.max_dtcs = 3
    /\ Len(fn_call.dtcs) = 1


(***************************************************************************)
(* J1587 messages and checksums: properties                                *)
(***************************************************************************)
\* C17: a message of at most 21 bytes composed of a MID, parameters with
\* PIDs of fixed length and the checksum of j1708_calculate_checksum is
\* parsed by j1708_parse_message with success and checksum_valid, the same
\* MID and the same (pid, data) list in order; bytes that end inside a
\* parameter leave exactly the complete parameters before it
C17_RoundTrip ==
    fn_call.fn = "j1708_parse_message"
    => LET msg == fn_call.parsed.msg
       IN /\ fn_call.parsed.ok
          /\ msg.checksum_valid
          /\ msg.mid = fn_call.mid
          /\ Len(msg.params) = Len(fn_call.params)
          /\ \A i \in 1 .. Len(fn_call.params) :
                /\ msg.params[i].pid = fn_call.params[i].pid
                /\ msg.params[i].data = fn_call.params[i].data
                /\ msg.params[i].data_length = Len(fn_call.params[i].data)

\* nine parameters and the first byte of a tenth in 21 bytes: nine come back
C17_Witness ==
    /\ fn_call.fn = "j1708_parse_message"
    /\ Len(fn_call.bytes) = 21
    /\ Len(fn_call.params) = 9
    /\ fn_call.tail = <<110>>
    /\ Len(fn_call.parsed.msg.params) = 9

\* a 16-bit parameter, then half of another one
C17_Partial ==
    /\ fn_call.fn = "j1708_parse_message"
    /\ fn_call.params = <<[pid |-> 190, data |-> <<16, 39>>]>>
    /\ fn_call.tail = <<190, 7>>
    /\ Len(fn_call.parsed.msg.params) = 1

\* C18: for any byte sequence, the sequence with the byte of
\* j1708_calculate_checksum appended passes j1708_validate_checksum
C18_AsStated == fn_call.fn = "j1708_calculate_checksum" => fn_call.valid

\* C18 for the sequences of at least one byte
C18_NonEmpty ==
    (fn_call.fn = "j1708_calculate_checksum" /\ Len(fn_call.data) >= 1)
    => fn_call.valid

\* a sequence summing to 256 gets the checksum 0
C18_Witness ==
    /\ fn_call.fn = "j1708_calculate_checksum"
    /\ fn_call.data = <<1, 255>>
    /\ fn_call.checksum = 0
    /\ fn_call.valid


(***************************************************************************)
(* Watch list: properties                                                  *)
(***************************************************************************)
\* the severity of a value under the thresholds of an entry
C20_Severity(v, e) ==
    CASE v <= e.crit_low \/ v >= e.crit_high -> 3
      [] ~(v <= e.crit_low \/ v >= e.crit_high)
           /\ (v <= e.warn_low \/ v >= e.warn_high) -> 2
      [] OTHER -> 0

C20_Thresholds(e) == <<e.warn_low, e.warn_high, e.crit_low, e.crit_high>>

C20_Step ==
    (fn_call' # fn_call /\ fn_call'.fn = "watch_list_update") =>
        \A i \in 1 .. Len(wlm.items) :
            LET e == wlm.items[i]
                r == data_manager_get(dm, e.param_id)
            IN /\ r.ok => wlm'.items[i].current_alert
                              = C20_Severity(r.value, e)
               /\ (/\ fn_call.fn = "watch_list_update"
                   /\ i <= Len(fn_call.items)
                   /\ C20_Thresholds(fn_call.items[i]) = C20_Thresholds(e)
                   /\ fn_call.read[i] = r)
                  => wlm'.items[i].current_alert
                         = fn_call.items[i].current_alert

\* C20: the severity watch_list_update computes for a value v is CRITICAL if
\* v <= crit_low or v >= crit_high, otherwise WARNING if v <= warn_low or
\* v >= warn_high, otherwise NONE; a further update with the store value
\* and the thresholds unchanged gives the same severity
C20_Update == [][C20_Step]_vars

\* the coolant temperature sits on warn_low, above crit_low: a warning, and
\* the update after the first has found it again
C20_Witness ==
    /\ fn_call.fn = "watch_list_update"
    /\ fn_call.again
    /\ \E i \in 1 .. Len(wlm.items) :
          /\ wlm.items[i].param_id = PARAM_COOLANT_TEMP
          /\ wlm.items[i].warn_low = 1
          /\ data_manager_get(dm, PARAM_COOLANT_TEMP) = [ok |-> TRUE, value |-> 1]
          /\ wlm.items[i].current_alert = 2

\* the update has just run
C32_Updated == fn_call' # fn_call /\ fn_call'.fn = "watch_list_update"

\* nothing but the alerts of the entries has changed
C32_Frame ==
    /\ Len(wlm'.items) = Len(wlm.items)
    /\ wlm' = [wlm EXCEPT !.items =
                 [i \in 1 .. Len(wlm.items) |->
                    [wlm.items[i] EXCEPT !.current_alert =
                         wlm'.items[i].current_alert]]]
    /\ dm' = dm

\* C32 as stated: watch_list_update recomputes the severity only of the
\* enabled entries whose parameter has a valid value in the store; a
\* disabled entry and an entry whose parameter has no valid value keep
\* their severity, and no other field of any entry changes
C32_AsStated ==
    [][C32_Updated =>
        /\ C32_Frame
        /\ \A i \in 1 .. Len(wlm.items) :
             LET e == wlm.items[i]
                 r == data_manager_get(dm, e.param_id)
             IN wlm'.items[i].current_alert =
                    IF e.enabled /\ r.ok THEN C20_Severity(r.value, e)
                    ELSE e.current_alert]_vars

\* C32: watch_list_update recomputes the severity of every enabled entry,
\* from the value when the store has a valid one and to none when it has
\* not; a disabled entry keeps its severity, and no other field of any
\* entry changes
C32_Update ==
    [][C32_Updated =>
        /\ C32_Frame
        /\ \A i \in 1 .. Len(wlm.items) :
             LET e == wlm.items[i]
                 r == data_manager_get(dm, e.param_id)
             IN wlm'.items[i].current_alert =
                    IF ~e.enabled THEN e.current_alert
                    ELSE IF r.ok THEN C20_Severity(r.value, e)
                    ELSE 0]_vars

\* the coolant temperature was critical, its value was invalidated, and the
\* update has set the alert of the entry to none
C32_Witness ==
    /\ fn_call.fn = "watch_list_update"
    /\ fn_call.items = wlm.items
    /\ \E i \in 1 .. Len(wlm.items) :
          /\ wlm.items[i].param_id = PARAM_COOLANT_TEMP
          /\ wlm.items[i].enabled
          /\ fn_call.before[i].current_alert = 3
          /\ ~fn_call.read[i].ok
          /\ wlm.items[i].current_alert = 0
          /\ wlm.items[i].crit_low = fn_call.before[i].crit_low

(***************************************************************************)
(* Properties of data_manager_invalidate                                   *)
(***************************************************************************)
C22_Reads == {"get", "get_with_timestamp", "is_fresh"}

\* justInvalidated: the record is only followed from the invalidate call
\* to the step after it
C22_Step(ids, justInvalidated) ==
    LET call == dm_call'
    IN /\ (call.fn = "invalidate" /\ call.param_id \in ids)
            => dm' = param_put(dm, call.param_id,
                               [call.before EXCEPT !.is_valid = FALSE])
       /\ \A id \in ids :
              (/\ justInvalidated
                    => dm_call.fn = "invalidate" /\ dm_call.param_id = id
               /\ ~param_at(dm, id).is_valid
               /\ param_at(dm', id).is_valid)
                  => IsAcceptedUpdate(call) /\ call.param_id = id
       /\ (call.param_id \in ids /\ ~param_at(dm', call.param_id).is_valid)
            => /\ call.fn \in C22_Reads => ~call.ok
               /\ call.fn = "get_age" => call.out_ts = UINT32_MAX
       /\ (IsAcceptedUpdate(call) /\ call.param_id \in ids)
            => param_at(dm', call.param_id).is_valid

\* C22 as stated: data_manager_invalidate changes only the valid flag of the
\* record; the record is still invalid after the step that follows the
\* invalidate unless that step is an update of its identity, and while it
\* is invalid get, get_with_timestamp and is_fresh report no value and
\* get_age reports the maximum 32-bit value; an update makes the record
\* valid again
C22_AsStated == [][C22_Step(StoreIds, TRUE)]_vars

\* C22 for the identities below DATA_MAX_PARAMETERS, where an invalid
\* record stays invalid until the next update of its identity however many
\* steps lie between
C22_InsideArray == [][C22_Step(InsideIds, FALSE)]_vars

\* an invalidated record inside the array is asked for its age
C22_InsideSeen ==
    /\ dm_call.fn = "get_age"
    /\ dm_call.param_id \in InsideIds
    /\ dm_call.before.update_count > 0
    /\ ~dm_call.before.is_valid
    /\ dm_call.out_ts = UINT32_MAX

(***************************************************************************)
(* The parameter array and the identities                                  *)
(***************************************************************************)
C26_Accessors ==
    {"update", "get", "get_with_timestamp", "is_fresh", "get_age", "invalidate"}

\* the call is one that the range test lets through
C26_Accesses(call) ==
    call.fn \in C26_Accessors /\ ~param_rejected(dm, call.param_id)

C26_Step(ids) ==
    LET call == dm_call'
    IN /\ (C26_Accesses(call) /\ call.param_id \in ids)
            => call.param_id < DATA_MAX_PARAMETERS
       /\ (IsAcceptedUpdate(call) /\ call.param_id \in ids)
            => /\ \A id \in StoreIds \ {call.param_id} :
                      param_at(dm', id) = param_at(dm, id)
               /\ dm'.callbacks = dm.callbacks
               /\ dm'.callback_count = dm.callback_count
               /\ dm'.total_updates = dm.total_updates + 1
               /\ dm'.initialized = dm.initialized

\* C26 as stated: every update, get, get_with_timestamp, is_fresh, get_age
\* and invalidate that the range test lets through accesses a record whose
\* index is below the capacity of the parameter array, and an update
\* changes no record of another identity, not the observer list, and of
\* the counters only total_updates, by one
C26_AsStated == [][C26_Step(StoreIds)]_vars

\* C26 for the identities below DATA_MAX_PARAMETERS
C26_InsideArray == [][C26_Step(InsideIds)]_vars

\* an update has been let through for an identity at or above the capacity
C26_BeyondSeen ==
    /\ dm_call.fn = "update"
    /\ dm_call.param_id >= DATA_MAX_PARAMETERS
    /\ dm_call.param_id < PARAM_MAX
    /\ dm.total_updates > 0

(***************************************************************************)
(* Properties of the watch list calls                                      *)
(***************************************************************************)
C21_Has(w, param_id) == \E i \in 1 .. Len(w.items) : w.items[i].param_id = param_id

\* at most 16 entries, no identity twice, every page below 4
C21_WellFormed(w) ==
    /\ Len(w.items) <= 16
    /\ \A i, j \in 1 .. Len(w.items) :
           w.items[i].param_id = w.items[j].param_id => i = j
    /\ \A i \in 1 .. Len(w.items) : w.items[i].page < 4

C21_Add ==
    LET n == Len(wlm.items)
    IN IF C21_Has(wlm, fn_call'.param_id) \/ n >= 16 \/ fn_call'.page >= 4
       THEN fn_call'.ret = -1 /\ wlm' = wlm
       ELSE /\ fn_call'.ret = n
            /\ Len(wlm'.items) = n + 1
            /\ SubSeq(wlm'.items, 1, n) = wlm.items
            /\ wlm'.items[n + 1].param_id = fn_call'.param_id
            /\ wlm'.items[n + 1].page = fn_call'.page

C21_IsNot(param_id, item) == item.param_id # param_id

C21_Remove ==
    IF ~C21_Has(wlm, fn_call'.param_id)
    THEN fn_call'.ret = FALSE /\ wlm' = wlm
    ELSE /\ fn_call'.ret = TRUE
         /\ wlm'.items = SelectSeq(wlm.items,
                LAMBDA item : C21_IsNot(fn_call'.param_id, item))
         /\ Len(wlm'.items) = Len(wlm.items) - 1

C21_Step ==
    /\ C21_WellFormed(wlm')
    /\ fn_call'.fn = "watch_list_add" => C21_Add
    /\ fn_call'.fn = "watch_list_remove" => C21_Remove

\* C21: after any sequence of watch_list_add, watch_list_remove,
\* watch_list_clear and watch_list_setup_defaults the list holds at most 16
\* entries, no identity twice, every page below 4; an add returns the entry
\* count before the call on success, and fails leaving the list unchanged
\* when the identity is present, the list is full or the page is 4 or more;
\* a remove of an absent identity fails and changes nothing, a successful
\* remove keeps the other entries in their order
C21_List == [][C21_Step]_vars

\* an add of a new identity on a valid page has failed on the full list,
\* which had lost and regained entries before
C21_Witness ==
    /\ Len(wlm.items) = 16
    /\ fn_call.fn = "watch_list_add"
    /\ fn_call.ret = -1
    /\ fn_call.page < 4
    /\ ~C21_Has(wlm, fn_call.param_id)
    /\ wlm.items[1].param_id # PARAM_ENGINE_SPEED

(***************************************************************************)
(* Transport sessions and their slots                                      *)
(***************************************************************************)
IsBam(call) ==
    /\ call.fn = "handle_frame"
    /\ call.msg.pgn = PGN_TP_CM
    /\ call.msg.data[1] = TP_CM_BAM

\* a session that has failed by a sequence error or a late packet, or that
\* has been silent for longer than the timeout at the time now
C24_Failed(session, now) ==
    \/ session.state = TP_STATE_ERROR
    \/ /\ session.state = TP_STATE_RECEIVING
       /\ elapsed_exceeds(now, session.last_packet_time_ms, J1939_TP_TIMEOUT_MS)

C24_Opened(call) == StateOf(ctx', call.msg.source_address) = TP_STATE_RECEIVING

\* C24 as stated: a Broadcast Announce that arrives while a slot holds a
\* failed or timed-out session, of whatever source address, opens a session
C24_AsStated ==
    [][(/\ IsBam(tp_call')
        /\ \E i \in Slots :
               C24_Failed(ctx.tp_sessions[i], tp_call'.msg.timestamp_ms))
         => C24_Opened(tp_call')]_vars

\* what the code does: a drained session is idle, and a Broadcast Announce
\* opens a session when a slot is idle or a session of its own source
\* address exists, and only then
C24_IdleOrOwn ==
    [][/\ (tp_call'.fn = "get_data" /\ tp_call'.pgn_written)
            => StateOf(ctx', tp_call'.msg.source_address) = "none"
       /\ IsBam(tp_call')
            => (C24_Opened(tp_call')
                  <=> \/ allocate_tp_session(ctx) # NoSession
                      \/ find_tp_session(ctx, tp_call'.msg.source_address)
                             # NoSession)]_vars

\* an announce is refused while one slot holds a session in error and the
\* three others sessions that were announced and never continued
C24_Refused ==
    /\ IsBam(tp_call)
    /\ StateOf(ctx, tp_call.msg.source_address) = "none"
    /\ \E i \in Slots : ctx.tp_sessions[i].state = TP_STATE_ERROR

(***************************************************************************)
(* The reassembly buffer                                                   *)
(***************************************************************************)
\* every cell written lies inside buffer[J1939_TP_MAX_LENGTH]
C28_WritesInside(c) ==
    \A i \in Slots :
        \A k \in DOMAIN c.tp_sessions[i].buffer.cells :
            k >= 0 /\ k < J1939_TP_MAX_LENGTH

C28_SizesInside(c) ==
    \A i \in Slots : c.tp_sessions[i].total_size <= J1939_TP_MAX_LENGTH

C28_CopyInside(call) ==
    call.fn = "get_data"
        => call.len <= J1939_TP_MAX_LENGTH /\ call.data.over = 0

\* C28 as stated: every session has total_size <= 1785, Data Transfer
\* frames write inside the reassembly buffer only, and j1939_tp_get_data
\* copies at most 1785 bytes and reads nothing past the buffer
C28_AsStated ==
    [][/\ C28_SizesInside(ctx')
       /\ C28_WritesInside(ctx')
       /\ C28_CopyInside(tp_call')]_vars

\* what the code does: the writes of the Data Transfer frames stay inside
\* the buffer, and a drain of a session announced with at most 1785 bytes
\* stays inside it
C28_Inside ==
    [][/\ C28_WritesInside(ctx')
       /\ (tp_call'.fn = "get_data" /\ tp_call'.pgn_written
           /\ ctx.tp_sessions[find_tp_session(ctx, tp_call'.msg.source_address)]
                  .total_size <= J1939_TP_MAX_LENGTH)
            => C28_CopyInside(tp_call')]_vars

\* a drain has copied 1786 bytes out of the buffer of 1785
C28_OverRead ==
    /\ tp_call.fn = "get_data"
    /\ tp_call.len = J1939_TP_MAX_LENGTH + 1
    /\ tp_call.data.over = 1

(***************************************************************************)
(* Properties of the frames the J1708 framer abandons                      *)
(***************************************************************************)
\* the byte j1708_task hands to j1708_receive_byte in this step
C29_Byte == j_line'.sent[Len(j_line'.sent)].msg[j_line'.pos]

\* the byte arrives after the gap and ends a buffer of fewer than 2 bytes
C29_GapShort ==
    j1708_gap(j1708_ctx, j_now')
      /\ Len(j1708_ctx.buffer) < J1708_MIN_MESSAGE_LENGTH

\* the byte arrives after the gap and ends a buffer that fails the checksum
C29_GapChecksum ==
    /\ j1708_gap(j1708_ctx, j_now')
    /\ Len(j1708_ctx.buffer) >= J1708_MIN_MESSAGE_LENGTH
    /\ ~j1708_validate_checksum(j1708_ctx.buffer)

\* the byte arrives within the gap and finds the buffer full
C29_Overflow ==
    /\ ~j1708_gap(j1708_ctx, j_now')
    /\ Len(j1708_ctx.buffer) = J1708_MAX_MESSAGE_LENGTH

\* nothing is reported complete and the bytes of the frame are gone
C29_Dropped ==
    /\ ~j1708_receive_byte(j1708_ctx, C29_Byte, j_now').ret
    /\ j1708_ctx'.messages_received = j1708_ctx.messages_received
    /\ j_delivered' = j_delivered
    /\ dm' = dm
    /\ j1708_ctx'.buffer \in {<<>>, <<C29_Byte>>}

C29_Errors(c) == c.checksum_errors + c.parse_errors

\* C29 as stated: every frame the framer abandons (a buffer ended by a gap
\* of more than 10 ms that holds fewer than 2 bytes or fails the checksum,
\* or a full buffer of 21 bytes when another byte arrives within the gap)
\* is dropped without being reported complete, leaves the buffer without
\* its bytes and adds exactly one to checksum_errors or parse_errors; the
\* buffer never holds more than 21 bytes
C29_AsStated ==
    [][/\ (C29_GapShort \/ C29_GapChecksum \/ C29_Overflow)
            => /\ C29_Dropped
               /\ C29_Errors(j1708_ctx') = C29_Errors(j1708_ctx) + 1
       /\ Len(j1708_ctx'.buffer) <= J1708_MAX_MESSAGE_LENGTH]_vars

\* what the code does: the three kinds of frame are dropped and the buffer
\* stays within 21 bytes; a checksum failure adds one to checksum_errors,
\* an overflow adds one to parse_errors and drops the byte that found the
\* buffer full, and a buffer of fewer than 2 bytes changes no counter
C29_Counted ==
    [][/\ (C29_GapShort \/ C29_GapChecksum \/ C29_Overflow) => C29_Dropped
       /\ C29_GapChecksum
            => /\ j1708_ctx'.checksum_errors = j1708_ctx.checksum_errors + 1
               /\ j1708_ctx'.parse_errors = j1708_ctx.parse_errors
               /\ j1708_ctx'.buffer = <<C29_Byte>>
       /\ C29_Overflow
            => /\ j1708_ctx'.parse_errors = j1708_ctx.parse_errors + 1
               /\ j1708_ctx'.checksum_errors = j1708_ctx.checksum_errors
               /\ j1708_ctx'.buffer = <<>>
               /\ j1708_ctx'.state = J1708_RX_IDLE
       /\ C29_GapShort
            => /\ C29_Errors(j1708_ctx') = C29_Errors(j1708_ctx)
               /\ j1708_ctx'.buffer = <<C29_Byte>>
       /\ Len(j1708_ctx'.buffer) <= J1708_MAX_MESSAGE_LENGTH]_vars

\* a lone byte was abandoned at the gap and no counter moved
C29_ShortUncounted ==
    /\ Len(j_line.sent) = 2
    /\ j_line.sent[1].msg = <<128>>
    /\ j_line.sent[2].gap = J1708_INTER_BYTE_TIMEOUT_MS + 1
    /\ j1708_ctx.buffer = <<j_line.sent[2].msg[1]>>
    /\ C29_Errors(j1708_ctx) = 0
    /\ j1708_ctx.messages_received = 0

\* a full buffer was abandoned and counted as a parse error
C29_Overflowed ==
    /\ j1708_ctx.parse_errors = 1
    /\ j1708_ctx.buffer = <<>>
    /\ j1708_ctx.state = J1708_RX_IDLE
    /\ j_line.pos = J1708_MAX_MESSAGE_LENGTH + 1

\* a frame that fails the checksum was abandoned and counted
C29_ChecksumCounted ==
    /\ j1708_ctx.checksum_errors = 1
    /\ j1708_ctx.parse_errors = 0
    /\ Len(j_line.sent) = 2
    /\ j_line.sent[1].msg = <<128, 84, 40, 5>>
    /\ j_line.pos = 1

(***************************************************************************)
(* Properties of the current gear                                          *)
(***************************************************************************)
\* an ETC2 payload with the raw gear in byte 3, as the tests build it
C30_Payload(raw) == <<raw, 255, 255, raw, 255, 255, 255, 255>>

\* the raw gear of the ETC2 frame the pipeline has just handled
C30_Raw == can_call'.msg.data[4]

C30_Handled == can_call'.parsed /\ can_call'.msg.pgn = 61445

\* the pipeline has stored gear as the current gear, with the time of the call
C30_Stored(gear) ==
    data_manager_get_with_timestamp(dm', PARAM_CURRENT_GEAR) =
        [ok |-> TRUE, value |-> gear * 1000, timestamp_ms |-> tp_now']

\* C30 as stated: for every ETC2 payload whose byte 3 holds a raw r other
\* than 0xFE and 0xFF, j1939_decode_current_gear returns r - 125, which is
\* not the invalid marker -126, and the pipeline stores that value as the
\* current gear
C30_AsStated ==
    [][/\ \A r \in 0 .. 253 :
            /\ j1939_decode_current_gear(C30_Payload(r)) = r - 125
            /\ j1939_decode_current_gear(C30_Payload(r)) # -126
       /\ (C30_Handled /\ C30_Raw \notin {254, 255})
            => C30_Stored(C30_Raw - 125)]_vars

\* what the code does: up to raw 252 the gear is r - 125 and the pipeline
\* stores it; raw 253 gives 128, which the int8_t result holds as -128, and
\* the pipeline takes that for invalid and leaves the stored gear alone
C30_InRange ==
    [][/\ \A r \in 0 .. 252 :
            /\ j1939_decode_current_gear(C30_Payload(r)) = r - 125
            /\ j1939_decode_current_gear(C30_Payload(r)) # -126
       /\ j1939_decode_current_gear(C30_Payload(253)) = -128
       /\ (C30_Handled /\ C30_Raw <= 252) => C30_Stored(C30_Raw - 125)
       /\ (C30_Handled /\ C30_Raw >= 253) => dm' = dm]_vars

\* the frame with raw 253 was handled and no gear is stored
C30_Wrapped ==
    /\ can_call.parsed
    /\ can_call.msg.pgn = 61445
    /\ can_call.msg.data[4] = 253
    /\ ~data_manager_get(dm, PARAM_CURRENT_GEAR).ok

\* 8th gear was stored after reverse
C30_Eighth ==
    /\ can_call.parsed
    /\ can_call.msg.data[4] = 133
    /\ data_manager_get(dm, PARAM_CURRENT_GEAR) = [ok |-> TRUE, value |-> 8000]
    /\ param_at(dm, PARAM_CURRENT_GEAR).prev_value = -1000

(***************************************************************************)
(* Properties of the parameters of a parsed J1708 message                  *)
(***************************************************************************)
C31_Parsed == fn_call.fn = "j1708_parse_message" /\ fn_call.parsed.ok

C31_Params == fn_call.parsed.msg.params

\* offset of the data of the parameter of variable length in the message
C31_Start == 1 + Len(fn_call.head) + 2

\* C31 as stated: every parameter j1708_parse_message appends has a
\* data_length of at most 8 and carries exactly data_length bytes copied
\* from the message, a longer resolved length being capped at 8
C31_AsStated ==
    C31_Parsed
    => \A i \in 1 .. Len(C31_Params) :
           /\ C31_Params[i].data_length <= 8
           /\ Len(C31_Params[i].data) = C31_Params[i].data_length

\* what the code does: the parameter of variable length is appended when
\* the message holds all the bytes its length byte announces, with that
\* length uncapped; its bytes are copied for lengths 1 to 8 only, and for
\* 0 and for more than 8 nothing is copied and the parameter is not valid
C31_Uncapped ==
    C31_Parsed
    => LET n == Len(C31_Params)
           complete == fn_call.present = fn_call.declared
       IN /\ n = (IF fn_call.head = <<>> THEN 0 ELSE 1)
                   + (IF complete THEN 1 ELSE 0)
          /\ complete
               => /\ C31_Params[n].pid = fn_call.pid
                  /\ C31_Params[n].data_length = fn_call.declared
                  /\ C31_Params[n].is_valid
                       = (fn_call.declared \in 1 .. 8)
                  /\ C31_Params[n].data
                       = IF fn_call.declared \in 1 .. 8
                         THEN SubSeq(fn_call.bytes, C31_Start + 1,
                                     C31_Start + fn_call.declared)
                         ELSE <<>>

\* a parameter was appended with a length of 12 and no data
C31_TwelveAppended ==
    /\ C31_Parsed
    /\ fn_call.declared = 12
    /\ Len(C31_Params) = 1
    /\ C31_Params[1] = [pid |-> 194, data_length |-> 12, is_valid |-> FALSE,
                        data |-> <<>>]

\* a parameter of 8 bytes was appended with its data
C31_EightCopied ==
    /\ C31_Parsed
    /\ Len(C31_Params) = 2
    /\ C31_Params[2].data_length = 8
    /\ C31_Params[2].data = <<8, 9, 10, 11, 12, 13, 14, 15>>

(***************************************************************************)
(* Properties of the session slots                                         *)
(***************************************************************************)
\* the slots that hold a session
C33_Busy(c) == {i \in Slots : c.tp_sessions[i].state # TP_STATE_IDLE}

C33_Unique(c) ==
    \A i, j \in C33_Busy(c) :
        c.tp_sessions[i].source_address = c.tp_sessions[j].source_address
            => i = j

\* a Broadcast Announce from an address that has a session takes the slot of
\* that session and opens no other
C33_Reuse ==
    (IsBam(tp_call') /\ tp_call' # tp_call /\ tp_call'.was # "none")
    => LET s == find_tp_session(ctx, tp_call'.msg.source_address)
       IN /\ s # NoSession
          /\ C33_Busy(ctx') = C33_Busy(ctx)
          /\ \A i \in Slots \ {s} : ctx'.tp_sessions[i] = ctx.tp_sessions[i]
          /\ ctx'.tp_sessions[s].state = TP_STATE_RECEIVING
          /\ ctx'.tp_sessions[s].received_packets = 0
          /\ ctx'.tp_sessions[s].buffer = memset(255)
          /\ ctx'.tp_sessions[s].total_size
                 = tp_call'.msg.data[2] + 256 * tp_call'.msg.data[3]

\* C33: no two sessions that are not idle have the same source address; a
\* Broadcast Announce from an address that already has a session
\* (receiving, complete or error) discards that session and reuses its slot
C33_OnePerAddress == []C33_Unique(ctx) /\ [][C33_Reuse]_vars

\* sender 0 announced again over its failed session while sender 1 holds
\* another slot
C33_Witness ==
    /\ IsBam(tp_call)
    /\ tp_call.msg.source_address = 0
    /\ tp_call.was = TP_STATE_ERROR
    /\ Cardinality(C33_Busy(ctx)) = 2
    /\ ctx.tp_sessions[find_tp_session(ctx, 0)].state = TP_STATE_RECEIVING

\* an announce from an address without a session finds every slot busy
C35_FullForNew(c, call) ==
    /\ IsBam(call)
    /\ C33_Busy(c) = Slots
    /\ find_tp_session(c, call.msg.source_address) = NoSession

\* C35: at most 4 sessions are not idle; when all 4 slots are busy, a
\* Broadcast Announce from an address that has no session is dropped:
\* j1939_tp_handle_frame returns false and no field of any session changes
C35_Dropped ==
    /\ [](Cardinality(C33_Busy(ctx)) <= 4)
    /\ [][C35_FullForNew(ctx, tp_call') => (~tp_call'.ret /\ ctx' = ctx)]_vars

\* the announce of sender 1 was dropped: the four slots hold the sessions of
\* four other senders
C35_Witness ==
    /\ IsBam(tp_call)
    /\ tp_call.msg.source_address = 1
    /\ tp_call.was = "none"
    /\ ~tp_call.ret
    /\ C33_Busy(ctx) = Slots
    /\ \A i \in Slots : ctx.tp_sessions[i].source_address # 1

\* the bytes of buffer, held by a session of source address sa that has
\* stored received packets of total_size bytes, are 0xFF except those the
\* data frames of that session have written
C36_OwnBytes(buffer, sa, received, total_size) ==
    /\ buffer.fill = 255
    /\ \A k \in DOMAIN buffer.cells :
          /\ k >= 0
          /\ k < Min(7 * received, total_size)
          /\ buffer.cells[k] = Payload(sa, (k \div 7) + 1)[(k % 7) + 1]

C36_Fresh(c) ==
    \A i \in C33_Busy(c) :
        C36_OwnBytes(c.tp_sessions[i].buffer, c.tp_sessions[i].source_address,
                     c.tp_sessions[i].received_packets,
                     c.tp_sessions[i].total_size)

C36_Step ==
    LET sa == tp_call'.msg.source_address
    IN /\ (IsBam(tp_call') /\ find_tp_session(ctx', sa) # NoSession)
            => LET session == ctx'.tp_sessions[find_tp_session(ctx', sa)]
               IN /\ session.received_packets = 0
                  /\ session.buffer = memset(255)
       /\ (tp_call'.fn = "get_data" /\ tp_call'.pgn_written)
            => LET session == ctx.tp_sessions[find_tp_session(ctx, sa)]
               IN C36_OwnBytes([fill |-> tp_call'.data.fill,
                                cells |-> tp_call'.data.cells],
                               sa, session.received_packets,
                               Min(session.total_size, tp_call'.len))

\* C36: after a Broadcast Announce the session has received 0 packets and
\* every byte of its buffer is 0xFF; from then on every byte below
\* total_size that no data frame of the session has written reads 0xFF, and
\* the drained data holds no byte of an earlier session of the slot
C36_StartsFresh == []C36_Fresh(ctx) /\ [][C36_Step]_vars

\* sender 0 was drained and its slot, which still held its 8 bytes, was
\* taken by the announce of sender 1
C36_Witness ==
    /\ IsBam(tp_call)
    /\ tp_call.msg.source_address = 1
    /\ tp_script[0].gets >= 1
    /\ ctx.tp_sessions[0].source_address = 1
    /\ ctx.tp_sessions[0].state = TP_STATE_RECEIVING
    /\ ctx.tp_sessions[0].buffer = memset(255)

(***************************************************************************)
(* Properties of a complete J1708 message                                  *)
(***************************************************************************)
\* the message waiting in the framer has at least 2 bytes and a valid
\* checksum
C34_Valid ==
    j1708_ctx.state = J1708_RX_COMPLETE
    => /\ Len(j1708_ctx.buffer) >= J1708_MIN_MESSAGE_LENGTH
       /\ j1708_validate_checksum(j1708_ctx.buffer)

C34_Step ==
    j1708_ctx.state = J1708_RX_COMPLETE
    => /\ fn_call'.fn = "j1708_receive_byte"
            => /\ fn_call'.ret
               /\ j1708_ctx' = j1708_ctx
               /\ j_delivered' = j_delivered
       /\ fn_call'.fn = "j1708_get_message"
            => /\ fn_call'.ret
               /\ j1708_ctx'.state = J1708_RX_IDLE
               /\ j1708_ctx'.buffer = <<>>
               /\ j_delivered'
                    = Append(j_delivered,
                             j1708_parse_message(j1708_ctx.buffer).msg)

\* C34: while the framer is in complete, j1708_receive_byte leaves the
\* buffered message unchanged for any byte and timestamp and returns true;
\* the message has at least 2 bytes and a valid checksum, and it leaves the
\* framer only through j1708_get_message, which returns the framer to idle
\* with an empty buffer
C34_Blocked == []C34_Valid /\ [][C34_Step]_vars

\* a byte has come after the gap while a complete message was waiting, and
\* the message is still there
C34_Witness ==
    /\ fn_call.fn = "j1708_receive_byte"
    /\ fn_call.was = J1708_RX_COMPLETE
    /\ fn_call.ret
    /\ j1708_ctx.state = J1708_RX_COMPLETE
    /\ j1708_ctx.buffer = <<128, 128>>
    /\ j_line.sent[Len(j_line.sent)]
         = [msg |-> <<0>>, gap |-> J1708_INTER_BYTE_TIMEOUT_MS + 1]

(***************************************************************************)
(* Properties of the accumulators                                          *)
(***************************************************************************)
\* lifetime distance and fuel with what is accumulated and not yet applied
C37_Distance(st) == st.lifetime.total_distance_km + st.distance_accumulator

C37_Fuel(st) == st.lifetime.total_fuel_liters + st.fuel_accumulator

C37_Step ==
    /\ (nvs_call' # nvs_call /\ nvs_call'.op = "periodic_update")
         => /\ C37_Distance(storage')
                = C37_Distance(storage) + nvs_call'.args[2]
            /\ C37_Fuel(storage') = C37_Fuel(storage) + nvs_call'.args[3]
    /\ (storage.initialized /\ nvs_call'.op \in {"emergency_save", "shutdown"})
         => /\ C37_Distance(storage') = C37_Distance(storage)
            /\ C37_Fuel(storage') = C37_Fuel(storage)
            /\ storage'.distance_accumulator = 0
            /\ storage'.fuel_accumulator = 0
            /\ storage'.dirty \cap {"trip_a", "trip_b", "lifetime"} = {}

\* C37: over nvs_storage_periodic_update, nvs_storage_emergency_save and
\* nvs_system_shutdown on an initialised store, lifetime distance plus the
\* distance accumulator grows by exactly the deltas supplied, and so does
\* fuel; after an emergency save both accumulators are zero and no trip or
\* lifetime dirty flag is set
C37_Conserved == [][C37_Step]_vars

\* 600 m and 50 ml were supplied without reaching a trigger, and the
\* emergency save has applied them
C37_Witness ==
    /\ nvs_call.op = "emergency_save"
    /\ storage.last_save_time_ms = 0
    /\ storage.lifetime.total_distance_km = 600
    /\ storage.lifetime.total_fuel_liters = 50
    /\ storage.distance_accumulator = 0
    /\ storage.fuel_accumulator = 0
    /\ storage.dirty = {}

(***************************************************************************)
(* Properties of a trip that is reset                                      *)
(***************************************************************************)
C38_Trip(st, trip_id) == IF trip_id = 0 THEN st.trip_a ELSE st.trip_b

\* the step is the call of nvs_trip_reset
C38_Reset == nvs_call' # nvs_call /\ nvs_call'.op = "trip_reset"

\* the step is the first flush trigger after the call of nvs_trip_reset
C38_NextCall ==
    /\ nvs_call.op = "trip_reset"
    /\ nvs_call' # nvs_call
    /\ nvs_call'.op \in {"periodic_update", "emergency_save"}

\* the deltas the call of the step supplies
C38_Supplied ==
    IF nvs_call'.op = "periodic_update"
    THEN [distance |-> nvs_call'.args[2], fuel |-> nvs_call'.args[3]]
    ELSE [distance |-> 0, fuel |-> 0]

C38_Zeroed ==
    C38_Reset
    => LET trip == C38_Trip(storage', nvs_call'.args[1])
       IN /\ trip.distance_km = 0
          /\ trip.fuel_used_liters = 0
          /\ trip.is_active
          /\ trip.start_time = nvs_call'.args[2]

\* C38 as stated: after nvs_trip_reset(trip, t) the trip has distance and
\* fuel 0, is active and has start_time t, and its distance and fuel account
\* only for the deltas supplied after the reset: what was accumulated
\* before the reset and not yet applied is not added to it by a later flush
C38_AsStated ==
    [][/\ C38_Zeroed
       /\ C38_NextCall
            => LET trip == C38_Trip(storage', nvs_call.args[1])
               IN /\ trip.distance_km \in {0, C38_Supplied.distance}
                  /\ trip.fuel_used_liters \in {0, C38_Supplied.fuel}]_vars

\* what the code does: the reset zeroes the trip and leaves the
\* accumulators alone, and the next flush adds them to the trip with what
\* they held before the reset
C38_Leaks ==
    [][/\ C38_Zeroed
       /\ C38_Reset
            => /\ storage'.distance_accumulator = storage.distance_accumulator
               /\ storage'.fuel_accumulator = storage.fuel_accumulator
       /\ C38_NextCall
            => LET trip == C38_Trip(storage', nvs_call.args[1])
               IN /\ trip.distance_km
                       \in {0, storage.distance_accumulator
                                  + C38_Supplied.distance}
                  /\ trip.fuel_used_liters
                       \in {0, storage.fuel_accumulator
                                  + C38_Supplied.fuel}]_vars

\* trip A has just been reset while 600 m and 50 ml wait in the accumulators
C38_Pending ==
    /\ nvs_call.op = "trip_reset"
    /\ nvs_call.args[1] = 0
    /\ storage.trip_a.distance_km = 0
    /\ storage.trip_a.is_active
    /\ storage.distance_accumulator = 600
    /\ storage.fuel_accumulator = 50

(***************************************************************************)
(* Properties of the faults stored from a DM1                              *)
(***************************************************************************)
\* the entries of the history that the step has added or changed
C39_Touched ==
    {i \in 1 .. storage'.dtc_count :
        \/ i > storage.dtc_count
        \/ storage'.dtc_history[i] # storage.dtc_history[i]}

\* the step has handled the data frame that completed a DM1
C39_Completed ==
    /\ can_call'.parsed
    /\ can_call'.msg.pgn = PGN_TP_DT
    /\ C39_Touched # {}

\* C39 as stated: every fault the receive pipeline stores in the history
\* after a completed multi-packet DM1 carries the source address of the ECU
\* whose transport session delivered it, so that a fault reported again by
\* the same ECU matches its entry
C39_AsStated ==
    [][C39_Completed =>
        \A i \in C39_Touched :
            storage'.dtc_history[i].source_address
                = can_call'.msg.source_address]_vars

\* what the code does: the fault is stored with its spn and fmi and with
\* whatever the unassigned source_address of the parsed record holds
C39_StackByte ==
    [][C39_Completed =>
        \A i \in C39_Touched :
            /\ storage'.dtc_history[i].spn = 100
            /\ storage'.dtc_history[i].fmi = 1
            /\ storage'.dtc_history[i].source_address \in JunkBytes]_vars

\* the fault of sender 0 is in the history under the address 255
C39_Foreign ==
    /\ can_call.parsed
    /\ can_call.msg.pgn = PGN_TP_DT
    /\ can_call.msg.source_address = 0
    /\ storage.dtc_count = 1
    /\ storage.dtc_history[1].spn = 100
    /\ storage.dtc_history[1].source_address = 255

(***************************************************************************)
(* Properties of the frames of the scenario harness                        *)
(***************************************************************************)
\* the step has emitted a frame and handled it in the raw-frame callback
C40_Emitted == tp_now' # tp_now /\ fn_call'.fn = "send_can_frame"

\* C40 as stated: a frame emitted for group P from address A reaches the
\* raw-frame callback with an identifier from which the decoder extracts
\* group P, address A and priority 6, and it updates the parameter of P
C40_AsStated ==
    [][C40_Emitted =>
        LET dec == sim_decode([pgn |-> fn_call'.pgn, data |-> fn_call'.data])
        IN /\ j1939_extract_pgn(fn_call'.can_id) = fn_call'.pgn
           /\ j1939_extract_source_address(fn_call'.can_id)
                  = fn_call'.source_addr
           /\ j1939_extract_priority(fn_call'.can_id) = 6
           /\ dec.pass =>
                  /\ param_at(dm', dec.id).is_valid
                  /\ param_at(dm', dec.id).value = dec.value]_vars

\* what the code does: the decoder extracts group 0, the low byte of P as
\* the address and A as the priority; the frame is counted and parsed and
\* no parameter is updated
C40_Swapped ==
    [][C40_Emitted =>
        /\ fn_call'.can_id = fn_call'.source_addr * 67108864 + 6 * 256
                                 + (fn_call'.pgn % 256)
        /\ can_call'.parsed
        /\ can_call'.msg.pgn = 0
        /\ can_call'.msg.source_address = fn_call'.pgn % 256
        /\ can_call'.msg.priority = fn_call'.source_addr
        /\ can_call'.notified = <<>>
        /\ g_can_frames_received' = g_can_frames_received + 1
        /\ dm' = dm]_vars

\* an EEC1 frame with a valid engine speed has been handled as a frame of
\* group 0 from address 4 and no parameter has a value
C40_Lost ==
    /\ fn_call.fn = "send_can_frame"
    /\ fn_call.pgn = 61444
    /\ sim_decode([pgn |-> 61444, data |-> fn_call.data]).pass
    /\ can_call.parsed
    /\ can_call.msg.pgn = 0
    /\ can_call.msg.source_address = 4
    /\ g_can_frames_received = 1
    /\ dm_updated = {}

(***************************************************************************)
(* Properties of the shutdown                                              *)
(***************************************************************************)
\* C25 as stated: at every instant at which flash holds clean_shutdown =
\* true, the trip, lifetime and accumulator data gathered before the
\* shutdown is on flash: nothing of it is pending in RAM, and nothing of it
\* was pending when the supply went away
C25_AsStated ==
    ("clean_shut" \in flash.keys /\ flash.clean_shut)
        => IF nvs_power = "on" THEN NothingPending(storage)
           ELSE nvs_call.op = "shutdown_flag"
                    => /\ nvs_call.pending.dirty
                              \cap {"trip_a", "trip_b", "lifetime"} = {}
                       /\ nvs_call.pending.distance = 0
                       /\ nvs_call.pending.fuel = 0

\* what the code does: once nvs_system_shutdown has returned, flash holds
\* the flag and nothing is pending
C25_Completed ==
    (nvs_power = "on" /\ nvs_call.op = "shutdown")
        => /\ flash.clean_shut
           /\ storage.dirty = {}
           /\ NothingPending(storage)

\* the supply is gone in the middle of a shutdown that had a trip and
\* accumulated distance to write: flash says the shutdown was clean
C25_PowerLoss ==
    /\ nvs_power = "off"
    /\ nvs_call.op = "shutdown_flag"
    /\ flash.clean_shut
    /\ "trip_a" \in nvs_call.pending.dirty
    /\ nvs_call.pending.distance > 0

(***************************************************************************)
(* Properties of the flush running beside the CAN context                  *)
(***************************************************************************)
\* the section holds in RAM st what flash fl holds
C27_OnFlash(st, fl, section) ==
    IF section = "lifetime" THEN fl.lifetime = st.lifetime
    ELSE /\ fl.count = st.dtc_count
         /\ st.dtc_count > 0 => fl.dtcs = st.dtc_history

\* the section differs from flash and is not marked for the next flush
C27_Unmarked(st, fl, section) ==
    ~C27_OnFlash(st, fl, section) /\ section \notin st.dirty

\* C27 as stated: whenever nvs_storage_save_all is not in progress, the
\* lifetime and the fault history sections have their dirty flag set if
\* what RAM holds of them differs from what was last written to flash
C27_AsStated ==
    (nvs_power = "on" /\ nvs_call.op # "save_all")
        => \A section \in {"lifetime", "dtc"} :
               ~C27_Unmarked(storage, flash, section)

\* what the code does: a section gets into that state only by the step of
\* save_all that clears its flag after the section was written
C27_OnlyByClear ==
    [][\A section \in {"lifetime", "dtc"} :
          (/\ nvs_power = "on"
           /\ ~C27_Unmarked(storage, flash, section)
           /\ C27_Unmarked(storage', flash', section))
              => /\ nvs_call.op = "save_all"
                 /\ nvs_call.written
                 /\ SaveSections[nvs_call.section] = section]_vars

\* save_all has returned, a fault stored during it is in RAM only and
\* its section is not dirty
C27_Lost ==
    /\ nvs_power = "on"
    /\ nvs_call.op = "save_all_done"
    /\ storage.dtc_count = 2
    /\ flash.count = 1
    /\ storage.dirty = {}

====
